---- MODULE Spec2Model ----
(***************************************************************************)
(* Graph-node lowering of the fully-connected operator                     *)
(* (src/src/subgraph/fully-connected.c): xnn_define_fully_connected, the   *)
(* datatype checks, create_fully_connected_operator and                    *)
(* setup_fully_connected_operator, as a state machine over a subgraph      *)
(* (Spec; SpecClamp for the clamp bounds of a quantized operator).         *)
(*                                                                         *)
(* The two micro-kernels, each under a specification of its own:           *)
(* the f16 row-sum reduction with f32 accumulation                         *)
(* (src/src/f16-f32acc-rdsum/gen/...-7p7x-minmax-neonfp16arith-c32.c,      *)
(* SpecRdsum) and the qd8-f32-qc8w GEMM                                    *)
(* (src/src/qd8-f32-qc8w-gemm/gen/...-4x8c8-minmax-wasmsdot-u2.c,          *)
(* SpecGemm, and SpecGemmDepth for the calls of the largest depth).        *)
(***************************************************************************)
EXTENDS Integers, Sequences, FiniteSets, TLC

VARIABLES
  init_flags,   \* xnn_params.init_flags
  no_qs8,       \* build configuration: XNN_NO_QS8_OPERATORS is defined
  no_qu8,       \* build configuration: XNN_NO_QU8_OPERATORS is defined
  values,       \* subgraph->values, indexed by Value id + 1
  nodes,        \* subgraph->nodes[0 .. num_nodes-1]
  opdata,       \* the runtime's xnn_operator_data, one per created node
  operators,    \* the operator objects opdata[i].operator_object points to
  phase,        \* "define" while the subgraph is built, then "runtime",
                \* or "failed" once a create has failed
  call,         \* the API call that has just returned, until the caller drops it
  history,      \* the arguments of the define calls that returned success, in order
  rd_cfg,       \* reduction: the tensors and the kernel calls made on them
  output,       \* reduction: the output buffer the calls accumulate into
  thr,          \* reduction: each calling thread's position in its kernel call
  lock,         \* reduction: the thread the caller lets write the output, or 0
  gemm          \* GEMM: the call under way, its operands and the output tile

fc_vars ==
  <<init_flags, no_qs8, no_qu8, values, nodes, opdata, operators, phase, call, history>>
rdsum_vars == <<rd_cfg, output, thr, lock>>
gemm_vars == <<gemm>>
kernel_vars == <<rdsum_vars, gemm_vars>>
vars == <<fc_vars, kernel_vars>>

\* No reduction and no GEMM call is under way.
RdsumIdle ==
  /\ rd_cfg = [mode |-> "none"]
  /\ output = <<>>
  /\ thr = <<>>
  /\ lock = 0
GemmIdle == gemm = [pc |-> "none"]

----------------------------------------------------------------------------
\* Bounds of the check.

\* The most nodes the subgraph holds.
MaxNodes == 2

----------------------------------------------------------------------------
\* Program constants.

XNN_INIT_FLAG_XNNPACK == 1
XNN_FLAG_TRANSPOSE_WEIGHTS == 1
\* UINT32_MAX in the code; the largest id TLC's integers hold, and
\* like UINT32_MAX above every num_values.
XNN_INVALID_VALUE_ID == 2147483647
NULL == 0

xnn_status_success == "success"
xnn_status_uninitialized == "uninitialized"
xnn_status_invalid_parameter == "invalid_parameter"
xnn_status_out_of_memory == "out_of_memory"

\* A float is NaN or a number; every comparison with NaN is false.
NaN == [nan |-> TRUE, v |-> 0]
Flt(x) == [nan |-> FALSE, v |-> x]
isnan(f) == f.nan
FloatGE(a, b) == ~a.nan /\ ~b.nan /\ a.v >= b.v
\* The infinite floats: v is beyond every finite value of the check.
INFINITY == 1000000
isinf(f) == ~f.nan /\ (f.v = INFINITY \/ f.v = -INFINITY)

\* A float that need not be an integer, as the fraction n / d with d > 0;
\* the infinities are 1 / 0 and -1 / 0.
Rat(n, d) == [n |-> n, d |-> d]
RatLT(x, y) == x.n * y.d < y.n * x.d

\* A Value of the subgraph: the fields the lowering reads.
QuantizedValue(type, datatype, data, zero_point, scale) ==
  [type |-> type, datatype |-> datatype, data |-> data,
   quantization |-> [zero_point |-> zero_point, scale |-> scale],
   shape |-> [dim |-> <<2, 3>>]]
Value(type, datatype, data, zero_point) ==
  QuantizedValue(type, datatype, data, zero_point, Rat(1, 1))

\* The subgraphs of Values the define calls are made on: three Values each,
\* static (data # NULL) or not.
Subgraphs ==
  { <<Value("dense_tensor", "fp32", NULL, 0),
      Value("dense_tensor", "fp32", 11, 0),
      Value("dense_tensor", "qint32", 12, 0)>>,
    <<Value("dense_tensor", "qint8", NULL, 3),
      Value("dense_tensor", "qint8", 11, 0),
      Value("dense_tensor", "qint32", 12, 0)>>,
    <<Value("dense_tensor", "qint8", NULL, 0),
      Value("dense_tensor", "qint8", 11, 1),
      Value("dense_tensor", "qint32", 12, 0)>>,
    <<Value("dense_tensor", "quint8", NULL, 0),
      Value("dense_tensor", "quint8", 11, 1),
      Value("dense_tensor", "qint32", 12, 0)>>,
    <<Value("dense_tensor", "fp32", NULL, 0),
      Value("dense_tensor", "qint8", 11, 0),
      Value("invalid", "qint32", 12, 0)>>,
    <<Value("invalid", "fp32", 10, 0),
      Value("dense_tensor", "fp32", 11, 0),
      Value("dense_tensor", "fp16", 12, 0)>> }

num_values == Len(values)
\* subgraph->values[id]
ValueAt(id) == values[id + 1]

\* The arguments a define call is made with.
FloatSet == {NaN, Flt(-1), Flt(1)}
FlagSet == {XNN_FLAG_TRANSPOSE_WEIGHTS}
IdSet == {0, 1, 2, XNN_INVALID_VALUE_ID}
Calls ==
  [output_min : FloatSet, output_max : FloatSet,
   input_id : IdSet, filter_id : IdSet, bias_id : IdSet, output_id : IdSet,
   flags : FlagSet]

NoCall == [op |-> "none"]

----------------------------------------------------------------------------
\* The datatype switches, with their #ifndef branches.

\* switch (input_value->datatype), switch (output_value->datatype)
IoDatatypeSupported(dt) ==
  \/ dt = "fp32"
  \/ ~no_qs8 /\ dt = "qint8"
  \/ ~no_qu8 /\ dt = "quint8"

\* switch (bias_value->datatype)
BiasDatatypeSupported(dt) ==
  \/ dt = "fp32"
  \/ (~no_qs8 \/ ~no_qu8) /\ dt = "qint32"

\* check_datatypes_with_bias with the bias datatype left out of the fp32 case.
check_datatypes_with_bias_fp32_any_bias(input_datatype, filter_datatype, bias_datatype, output_datatype) ==
  IF output_datatype = "fp32"
    THEN IF input_datatype = "fp32" /\ filter_datatype = "fp32" THEN "true" ELSE "false"
  ELSE IF ~no_qs8 /\ output_datatype = "qint8"
    THEN IF input_datatype = "qint8" /\ filter_datatype = "qint8" /\ bias_datatype = "qint32"
           THEN "true" ELSE "false"
  ELSE IF ~no_qu8 /\ output_datatype = "quint8"
    THEN IF input_datatype = "quint8" /\ filter_datatype = "quint8" /\ bias_datatype = "qint32"
           THEN "true" ELSE "false"
  ELSE "unreachable"

\* "true", "false", or "unreachable" when the switch falls to XNN_UNREACHABLE.
check_datatypes_with_bias(input_datatype, filter_datatype, bias_datatype, output_datatype) ==
  IF output_datatype = "fp32"
    THEN IF input_datatype = "fp32" /\ filter_datatype = "fp32" /\ bias_datatype = "fp32"
           THEN "true" ELSE "false"
  ELSE IF ~no_qs8 /\ output_datatype = "qint8"
    THEN IF input_datatype = "qint8" /\ filter_datatype = "qint8" /\ bias_datatype = "qint32"
           THEN "true" ELSE "false"
  ELSE IF ~no_qu8 /\ output_datatype = "quint8"
    THEN IF input_datatype = "quint8" /\ filter_datatype = "quint8" /\ bias_datatype = "qint32"
           THEN "true" ELSE "false"
  ELSE "unreachable"

check_datatypes_without_bias(input_datatype, filter_datatype, output_datatype) ==
  IF output_datatype = "fp32"
    THEN IF input_datatype = "fp32" /\ filter_datatype = "fp32" THEN "true" ELSE "false"
  ELSE IF ~no_qs8 /\ output_datatype = "qint8"
    THEN IF input_datatype = "qint8" /\ filter_datatype = "qint8" THEN "true" ELSE "false"
  ELSE IF ~no_qu8 /\ output_datatype = "quint8"
    THEN IF input_datatype = "quint8" /\ filter_datatype = "quint8" THEN "true" ELSE "false"
  ELSE "unreachable"

----------------------------------------------------------------------------
\* xnn_define_fully_connected: the validation, in the order of the code.

Initialized == (init_flags % (2 * XNN_INIT_FLAG_XNNPACK)) >= XNN_INIT_FLAG_XNNPACK

\* The outcome of the checks: status "pass" when none returned early, the
\* errors logged (xnn_log_error), the Value ids dereferenced, and the result
\* of the check_datatypes_* call when it was reached.
Outcome(status, log, reads, check) ==
  [status |-> status, log |-> log, reads |-> reads, check |-> check]
Reject(log, reads) == Outcome(xnn_status_invalid_parameter, log, reads, "none")

\* switch (filter_value->datatype): "ok", "ok_logged" when the qint8 branch
\* logs the zero-point error and breaks, or "unsupported" (default branch).
FilterDatatypeSwitch(filter_value) ==
  IF filter_value.datatype = "fp32" THEN "ok"
  ELSE IF ~no_qs8 /\ filter_value.datatype = "qint8"
    THEN IF filter_value.quantization.zero_point # 0 THEN "ok_logged" ELSE "ok"
  ELSE IF ~no_qu8 /\ filter_value.datatype = "quint8" THEN "ok"
  ELSE "unsupported"

\* The bounds check with > for >=: equal bounds pass.
BoundsOutOfOrder_strict(output_min, output_max) ==
  FloatGE(output_min, output_max) /\ output_min.v # output_max.v

\* if (output_min >= output_max), line 267
BoundsOutOfOrder(output_min, output_max) == FloatGE(output_min, output_max)

\* The static-data checks left out.
FilterNonStatic_never(filter_value) == FALSE
BiasNonStatic_never(bias_value) == FALSE

\* if (filter_value->data == NULL), line 321
FilterNonStatic(filter_value) == filter_value.data = NULL
\* if (bias_value->data == NULL), line 370
BiasNonStatic(bias_value) == bias_value.data = NULL

\* Lines 392-447: the output Value and the datatype combination.
ValidateOutput(a, log, reads, has_bias) ==
  IF a.output_id >= num_values THEN Reject(Append(log, "output_id"), reads)
  ELSE LET output_value == ValueAt(a.output_id)
           rd == reads \cup {a.output_id} IN
  IF output_value.type # "dense_tensor" THEN Reject(Append(log, "output_type"), rd)
  ELSE IF ~IoDatatypeSupported(output_value.datatype)
    THEN Reject(Append(log, "output_datatype"), rd)
  ELSE LET chk == IF has_bias
                    THEN check_datatypes_with_bias(
                           ValueAt(a.input_id).datatype, ValueAt(a.filter_id).datatype,
                           ValueAt(a.bias_id).datatype, output_value.datatype)
                    ELSE check_datatypes_without_bias(
                           ValueAt(a.input_id).datatype, ValueAt(a.filter_id).datatype,
                           output_value.datatype) IN
  IF chk = "false" THEN Reject(Append(log, "datatype_mismatch"), rd)
  ELSE Outcome("pass", log, rd, chk)

\* Lines 353-390: the bias Value, when a bias id is supplied.
ValidateBias(a, log, reads) ==
  IF a.bias_id = XNN_INVALID_VALUE_ID THEN ValidateOutput(a, log, reads, FALSE)
  ELSE IF a.bias_id >= num_values THEN Reject(Append(log, "bias_id"), reads)
  ELSE LET bias_value == ValueAt(a.bias_id)
           rd == reads \cup {a.bias_id} IN
  IF bias_value.type # "dense_tensor" THEN Reject(Append(log, "bias_type"), rd)
  ELSE IF BiasNonStatic(bias_value) THEN Reject(Append(log, "bias_non_static"), rd)
  ELSE IF ~BiasDatatypeSupported(bias_value.datatype)
    THEN Reject(Append(log, "bias_datatype"), rd)
  ELSE ValidateOutput(a, log, rd, TRUE)

\* Lines 306-351: the filter Value.
ValidateFilter(a, reads) ==
  IF a.filter_id >= num_values THEN Reject(<<"filter_id">>, reads)
  ELSE LET filter_value == ValueAt(a.filter_id)
           rd == reads \cup {a.filter_id}
           sw == FilterDatatypeSwitch(filter_value) IN
  IF filter_value.type # "dense_tensor" THEN Reject(<<"filter_type">>, rd)
  ELSE IF FilterNonStatic(filter_value) THEN Reject(<<"filter_non_static">>, rd)
  ELSE IF sw = "unsupported" THEN Reject(<<"filter_datatype">>, rd)
  ELSE ValidateBias(a, IF sw = "ok_logged" THEN <<"filter_zero_point">> ELSE <<>>, rd)

\* Lines 253-304: the output bounds and the input Value.
ValidateBounds(a) ==
  IF isnan(a.output_min) THEN Reject(<<"nan_lower_bound">>, {})
  ELSE IF isnan(a.output_max) THEN Reject(<<"nan_upper_bound">>, {})
  ELSE IF BoundsOutOfOrder(a.output_min, a.output_max) THEN Reject(<<"bad_range">>, {})
  ELSE IF a.input_id >= num_values THEN Reject(<<"input_id">>, {})
  ELSE LET input_value == ValueAt(a.input_id)
           rd == {a.input_id} IN
  IF input_value.type # "dense_tensor" THEN Reject(<<"input_type">>, rd)
  ELSE IF ~IoDatatypeSupported(input_value.datatype)
    THEN Reject(<<"input_datatype">>, rd)
  ELSE ValidateFilter(a, rd)

\* The checks without the test of xnn_params.init_flags.
Validate_no_init_check(a) == ValidateBounds(a)

\* Lines 247-251, then the checks: the library must be initialized.
Validate(a) ==
  IF ~Initialized
    THEN Outcome(xnn_status_uninitialized, <<"not_initialized">>, {}, "none")
  ELSE ValidateBounds(a)

\* The node xnn_subgraph_new_node hands out: zero-initialized.
BlankNode ==
  [type |-> "invalid",
   activation |-> [output_min |-> Flt(0), output_max |-> Flt(0)],
   num_inputs |-> 0, inputs |-> <<0, 0, 0>>,
   num_outputs |-> 0, outputs |-> <<0>>,
   flags |-> 0, create |-> "NULL", setup |-> "NULL"]

\* xnn_subgraph_new_node: a new last node, or NULL (ok = FALSE) with the node
\* list as it was when the allocation fails.
xnn_subgraph_new_node(subgraph_nodes, alloc_ok) ==
  IF alloc_ok
    THEN [ok |-> TRUE, nodes |-> Append(subgraph_nodes, BlankNode)]
    ELSE [ok |-> FALSE, nodes |-> subgraph_nodes]

\* FillNode with the bias counted whether or not a bias id is supplied.
FillNode_always_three(node, a) ==
  [node EXCEPT
     !.type = "fully_connected",
     !.activation = [output_min |-> a.output_min, output_max |-> a.output_max],
     !.num_inputs = 3,
     !.inputs = <<a.input_id, a.filter_id, a.bias_id>>,
     !.num_outputs = 1,
     !.outputs = <<a.output_id>>,
     !.flags = a.flags,
     !.create = "create_fully_connected_operator",
     !.setup = "setup_fully_connected_operator"]

\* Lines 454-466: the fields of the new node.
FillNode(node, a) ==
  [node EXCEPT
     !.type = "fully_connected",
     !.activation = [output_min |-> a.output_min, output_max |-> a.output_max],
     !.num_inputs = 2 + (IF a.bias_id # XNN_INVALID_VALUE_ID THEN 1 ELSE 0),
     !.inputs = <<a.input_id, a.filter_id, a.bias_id>>,
     !.num_outputs = 1,
     !.outputs = <<a.output_id>>,
     !.flags = a.flags,
     !.create = "create_fully_connected_operator",
     !.setup = "setup_fully_connected_operator"]

\* xnn_define_fully_connected with the node allocated before the checks: a
\* rejected call leaves its node behind.
xnn_define_fully_connected_node_first(a, alloc_ok, ub_accept) ==
  LET v == Validate(a)
      new == xnn_subgraph_new_node(nodes, alloc_ok)
      failed == [status |-> v.status, log |-> v.log, reads |-> v.reads,
                 unreachable |-> v.check = "unreachable",
                 values |-> values, nodes |-> new.nodes] IN
  IF ~new.ok THEN [failed EXCEPT !.status = xnn_status_out_of_memory]
  ELSE IF v.status # "pass" THEN failed
  ELSE [failed EXCEPT
          !.status = xnn_status_success,
          !.nodes = [new.nodes EXCEPT ![Len(new.nodes)] = FillNode(@, a)]]

\* xnn_define_fully_connected writing through the head of the node array
\* instead of the node xnn_subgraph_new_node returned.
xnn_define_fully_connected_first_slot(a, alloc_ok, ub_accept) ==
  LET v == Validate(a)
      failed == [status |-> v.status, log |-> v.log, reads |-> v.reads,
                 unreachable |-> v.check = "unreachable",
                 values |-> values, nodes |-> nodes] IN
  IF v.status # "pass" THEN failed
  ELSE LET new == xnn_subgraph_new_node(nodes, alloc_ok) IN
  IF ~new.ok THEN [failed EXCEPT !.status = xnn_status_out_of_memory]
  ELSE [failed EXCEPT
          !.status = xnn_status_success,
          !.nodes = [new.nodes EXCEPT ![1] = FillNode(@, a)]]

\* The whole call: the status returned and the subgraph it leaves.  alloc_ok
\* is whether xnn_subgraph_new_node's allocation succeeds; ub_accept is the
\* value a build yields for a check_datatypes_* call that ran into
\* XNN_UNREACHABLE.
xnn_define_fully_connected(a, alloc_ok, ub_accept) ==
  LET v == Validate(a)
      failed == [status |-> v.status, log |-> v.log, reads |-> v.reads,
                 unreachable |-> v.check = "unreachable",
                 values |-> values, nodes |-> nodes] IN
  IF v.status # "pass" THEN failed
  ELSE IF v.check = "unreachable" /\ ~ub_accept
    THEN [failed EXCEPT !.status = xnn_status_invalid_parameter]
  ELSE LET new == xnn_subgraph_new_node(nodes, alloc_ok) IN
  IF ~new.ok THEN [failed EXCEPT !.status = xnn_status_out_of_memory]
  ELSE [failed EXCEPT
          !.status = xnn_status_success,
          !.nodes = [new.nodes EXCEPT ![Len(new.nodes)] = FillNode(@, a)]]

\* The outcomes of the environment a call can meet.
AllocOutcomes(a) == IF Validate(a).status = "pass" THEN BOOLEAN ELSE {TRUE}
UbOutcomes(a) == IF Validate(a).check = "unreachable" THEN BOOLEAN ELSE {TRUE}

----------------------------------------------------------------------------
\* create_fully_connected_operator and setup_fully_connected_operator.

HasFlag(flags, flag) == (flags % (2 * flag)) >= flag

\* xnn_shape_multiply_all_dims
xnn_shape_multiply_all_dims(shape) == shape.dim[1] * shape.dim[2]

\* The assertions of create_fully_connected_operator (lines 22-34, 47, 52-56)
\* on a node, each read only when the ones before it hold.
CreateAsserts(node) ==
  /\ node.num_inputs >= 2
  /\ node.num_inputs <= 3
  /\ node.inputs[1] # XNN_INVALID_VALUE_ID
  /\ node.inputs[1] < num_values
  /\ node.inputs[2] # XNN_INVALID_VALUE_ID
  /\ node.inputs[2] < num_values
  /\ node.num_outputs = 1
  /\ node.outputs[1] # XNN_INVALID_VALUE_ID
  /\ node.outputs[1] < num_values
  /\ ValueAt(node.inputs[2]).data # NULL
  /\ node.num_inputs > 2 =>
       /\ node.inputs[3] # XNN_INVALID_VALUE_ID
       /\ node.inputs[3] < num_values
       /\ ValueAt(node.inputs[3]).data # NULL

\* switch (values[node->outputs[0]].datatype), lines 60-129: the operator
\* type created, or "unreachable".
CreateOperatorType(output_datatype) ==
  IF output_datatype = "fp32" THEN "fully_connected_nc_f32"
  ELSE IF ~no_qs8 /\ output_datatype = "qint8" THEN "fully_connected_nc_qs8"
  ELSE IF ~no_qu8 /\ output_datatype = "quint8" THEN "fully_connected_nc_qu8"
  ELSE "unreachable"

\* No operator object: what a NULL operator_object points to.
NoOperator ==
  [type |-> "none",
   packed_weights |-> [filter |-> NULL, bias |-> NULL, input_channels |-> 0,
                       output_channels |-> 0, flags |-> 0],
   output_min |-> 0, output_max |-> 0,
   batch_size |-> 0, input |-> NULL, output |-> NULL]

\* A zero-initialized xnn_operator_data.
BlankOpdata ==
  [operator_object |-> NULL, batch_size |-> 0, inputs |-> <<0>>, outputs |-> <<0>>]

\* xnn_create_fully_connected_nc_{f32,qs8,qu8}: the operator object, with
\* the weights packed from the static filter and bias data; nothing is bound
\* to it yet.
xnn_create_fully_connected_nc(type, input_channels, output_channels, filter_data, bias_data, output_min, output_max, flags) ==
  [type |-> type,
   packed_weights |-> [filter |-> filter_data, bias |-> bias_data,
                       input_channels |-> input_channels,
                       output_channels |-> output_channels, flags |-> flags],
   output_min |-> output_min, output_max |-> output_max,
   batch_size |-> 0, input |-> NULL, output |-> NULL]

\* bound / output_scale + (float) output_zero_point, lines 80, 82, 106, 108.
\* (The scales and bounds of the check give quotients and sums a float
\* holds exactly, or that lie far from the middle of two integers.)
Requantized(bound, output_scale, output_zero_point) ==
  IF isinf(bound) THEN Rat(IF bound.v < 0 THEN -1 ELSE 1, 0)
  ELSE Rat(bound.v * output_scale.d + output_zero_point * output_scale.n, output_scale.n)
\* fmaxf and fminf with an integer second argument; no argument is NaN here.
fmaxf(x, y) == IF RatLT(x, Rat(y, 1)) THEN Rat(y, 1) ELSE x
fminf(x, y) == IF RatLT(Rat(y, 1), x) THEN Rat(y, 1) ELSE x
\* lrintf of a finite float, in the default rounding mode: to the nearest
\* integer, a tie to the even one.
lrintf_toward_zero(x) == IF x.n >= 0 THEN x.n \div x.d ELSE -((-x.n) \div x.d)
lrintf(x) ==
  LET q == x.n \div x.d
      r == x.n % x.d
  IN IF 2 * r < x.d THEN q
     ELSE IF 2 * r > x.d THEN q + 1
     ELSE IF q % 2 = 0 THEN q ELSE q + 1
\* The casts (int8_t) and (uint8_t) of a long.
CastInt8(x) == ((x + 128) % 256) - 128
CastUint8(x) == x % 256
\* Lines 79-82 and 105-108: the clamp bound passed to the operator.
QuantizedBound(type, bound, output_scale, output_zero_point) ==
  IF type = "fully_connected_nc_qs8"
    THEN CastInt8(lrintf(fminf(fmaxf(
           Requantized(bound, output_scale, output_zero_point), -128), 127)))
  ELSE IF type = "fully_connected_nc_qu8"
    THEN CastUint8(lrintf(fminf(fmaxf(
           Requantized(bound, output_scale, output_zero_point), 0), 255)))
  ELSE bound

\* create_fully_connected_operator(node, values, num_values, opdata):
\* op_status is the status xnn_create_fully_connected_nc_* returns, slot the
\* index of the operator object it allocates.
create_fully_connected_operator(node, op_status, slot) ==
  IF ~CreateAsserts(node)
    THEN [asserts_ok |-> FALSE, unreachable |-> FALSE, status |-> "aborted",
          opdata |-> BlankOpdata, operator |-> NoOperator]
  ELSE
  LET input_id == node.inputs[1]
      filter_id == node.inputs[2]
      output_id == node.outputs[1]
      num_input_elements == xnn_shape_multiply_all_dims(ValueAt(node.inputs[1]).shape)
      transposed == HasFlag(node.flags, XNN_FLAG_TRANSPOSE_WEIGHTS)
      input_channels == IF transposed THEN ValueAt(node.inputs[2]).shape.dim[1]
                                      ELSE ValueAt(node.inputs[2]).shape.dim[2]
      output_channels == IF transposed THEN ValueAt(node.inputs[2]).shape.dim[2]
                                       ELSE ValueAt(node.inputs[2]).shape.dim[1]
      filter_data == ValueAt(filter_id).data
      bias_data == IF node.num_inputs > 2 THEN ValueAt(node.inputs[3]).data ELSE NULL
      type == CreateOperatorType(ValueAt(node.outputs[1]).datatype) IN
  IF type = "unreachable"
    THEN [asserts_ok |-> TRUE, unreachable |-> TRUE, status |-> "aborted",
          opdata |-> BlankOpdata, operator |-> NoOperator]
  ELSE IF op_status # xnn_status_success
    THEN [asserts_ok |-> TRUE, unreachable |-> FALSE, status |-> op_status,
          opdata |-> BlankOpdata, operator |-> NoOperator]
  ELSE [asserts_ok |-> TRUE, unreachable |-> FALSE, status |-> xnn_status_success,
        opdata |-> [operator_object |-> slot,
                    batch_size |-> num_input_elements \div input_channels,
                    inputs |-> <<input_id>>, outputs |-> <<output_id>>],
        operator |-> xnn_create_fully_connected_nc(
                       type, input_channels, output_channels,
                       filter_data, bias_data,
                       QuantizedBound(type, node.activation.output_min,
                                      ValueAt(output_id).quantization.scale,
                                      ValueAt(output_id).quantization.zero_point),
                       QuantizedBound(type, node.activation.output_max,
                                      ValueAt(output_id).quantization.scale,
                                      ValueAt(output_id).quantization.zero_point),
                       node.flags)]

\* The blobs of a runtime: one per Value, each with live data.
Blobs(base) == [i \in 1..num_values |-> [data |-> base + i]]
BlobAt(blobs, id) == blobs[id + 1]

\* The invocations of setup: the blobs of the invocation, and the batch size
\* the caller wants it to run with.
Invocations ==
  { [blobs |-> Blobs(20), batch |-> 3], [blobs |-> Blobs(30), batch |-> 4] }

\* The assertions of setup_fully_connected_operator (lines 145-158).
SetupAsserts(od, blobs) ==
  /\ od.inputs[1] # XNN_INVALID_VALUE_ID
  /\ od.inputs[1] < Len(blobs)
  /\ od.outputs[1] # XNN_INVALID_VALUE_ID
  /\ od.outputs[1] < Len(blobs)
  /\ BlobAt(blobs, od.inputs[1]).data # NULL
  /\ BlobAt(blobs, od.outputs[1]).data # NULL

\* switch (opdata->operator_object->type), lines 160-188.
SetupTypeHandled(type) ==
  \/ type = "fully_connected_nc_f32"
  \/ ~no_qs8 /\ type = "fully_connected_nc_qs8"
  \/ ~no_qu8 /\ type = "fully_connected_nc_qu8"

\* xnn_setup_fully_connected_nc_{f32,qs8,qu8}(op, batch_size, input, output)
xnn_setup_fully_connected_nc(op, batch_size, input_data, output_data) ==
  [op EXCEPT !.batch_size = batch_size, !.input = input_data, !.output = output_data]

\* setup_fully_connected_operator taking the output data from the input blob.
setup_fully_connected_operator_input_as_output(od, op, blobs) ==
  IF ~SetupAsserts(od, blobs)
    THEN [asserts_ok |-> FALSE, unreachable |-> FALSE, status |-> "aborted",
          opdata |-> od, operator |-> op]
  ELSE IF ~SetupTypeHandled(op.type)
    THEN [asserts_ok |-> TRUE, unreachable |-> TRUE, status |-> "aborted",
          opdata |-> od, operator |-> op]
  ELSE [asserts_ok |-> TRUE, unreachable |-> FALSE, status |-> xnn_status_success,
        opdata |-> od,
        operator |-> xnn_setup_fully_connected_nc(
                       op, od.batch_size,
                       BlobAt(blobs, od.inputs[1]).data,
                       BlobAt(blobs, od.inputs[1]).data)]

\* setup_fully_connected_operator(opdata, blobs, num_blobs, threadpool): the
\* opdata is const; the operator object it points to is set up.
setup_fully_connected_operator(od, op, blobs) ==
  IF ~SetupAsserts(od, blobs)
    THEN [asserts_ok |-> FALSE, unreachable |-> FALSE, status |-> "aborted",
          opdata |-> od, operator |-> op]
  ELSE IF ~SetupTypeHandled(op.type)
    THEN [asserts_ok |-> TRUE, unreachable |-> TRUE, status |-> "aborted",
          opdata |-> od, operator |-> op]
  ELSE [asserts_ok |-> TRUE, unreachable |-> FALSE, status |-> xnn_status_success,
        opdata |-> od,
        operator |-> xnn_setup_fully_connected_nc(
                       op, od.batch_size,
                       BlobAt(blobs, od.inputs[1]).data,
                       BlobAt(blobs, od.outputs[1]).data)]

----------------------------------------------------------------------------
\* The state machine.

Init ==
  /\ init_flags \in {0, XNN_INIT_FLAG_XNNPACK}
  /\ no_qs8 \in BOOLEAN
  /\ no_qu8 \in BOOLEAN
  /\ values \in Subgraphs
  /\ nodes = <<>>
  /\ opdata = <<>>
  /\ operators = <<>>
  /\ phase = "define"
  /\ call = NoCall
  /\ history = <<>>
  /\ RdsumIdle
  /\ GemmIdle

\* One call of xnn_define_fully_connected by the client, with arguments
\* out of calls.
DefineOneOf(calls) ==
  /\ phase = "define"
  /\ call = NoCall
  /\ Len(nodes) < MaxNodes
  /\ \E a \in calls : \E alloc_ok \in AllocOutcomes(a) : \E ub_accept \in UbOutcomes(a) :
       LET r == xnn_define_fully_connected(a, alloc_ok, ub_accept) IN
         /\ values' = r.values
         /\ nodes' = r.nodes
         /\ call' = [op |-> "define", args |-> a, status |-> r.status,
                     log |-> r.log, reads |-> r.reads,
                     unreachable |-> r.unreachable,
                     values_before |-> values, nodes_before |-> nodes]
         /\ history' = IF r.status = xnn_status_success
                          THEN Append(history, a) ELSE history
  /\ UNCHANGED <<init_flags, no_qs8, no_qu8, opdata, operators, phase>>
  /\ UNCHANGED kernel_vars

Define == DefineOneOf(Calls)

\* The caller has looked at the returned status and goes on.
Return ==
  /\ call # NoCall
  /\ call' = NoCall
  /\ UNCHANGED <<init_flags, no_qs8, no_qu8, values, nodes, opdata, operators, phase, history>>
  /\ UNCHANGED kernel_vars

\* The runtime creates the operator of the next node: node->create.
Create ==
  /\ phase \in {"define", "runtime"}
  /\ call = NoCall
  /\ Len(opdata) < Len(nodes)
  /\ \E op_status \in {xnn_status_success, xnn_status_out_of_memory} :
       LET i == Len(opdata) + 1
           r == create_fully_connected_operator(nodes[i], op_status, i) IN
         /\ opdata' = Append(opdata, r.opdata)
         /\ operators' = Append(operators, r.operator)
         /\ phase' = IF r.status = xnn_status_success THEN "runtime" ELSE "failed"
         /\ call' = [op |-> "create", node |-> i, status |-> r.status,
                     asserts_ok |-> r.asserts_ok, unreachable |-> r.unreachable]
  /\ UNCHANGED <<init_flags, no_qs8, no_qu8, values, nodes, history>>
  /\ UNCHANGED kernel_vars

\* The runtime sets up a created operator for one invocation: node->setup,
\* on the blobs of that invocation.  inv.batch is the batch size the caller
\* wants for the invocation; setup_fully_connected_operator takes no such
\* argument.
Setup ==
  /\ phase = "runtime"
  /\ call = NoCall
  /\ \E i \in 1..Len(opdata) : \E inv \in Invocations :
       LET r == setup_fully_connected_operator(opdata[i], operators[i], inv.blobs) IN
         /\ opdata' = [opdata EXCEPT ![i] = r.opdata]
         /\ operators' = [operators EXCEPT ![i] = r.operator]
         /\ call' = [op |-> "setup", node |-> i, status |-> r.status,
                     asserts_ok |-> r.asserts_ok, unreachable |-> r.unreachable,
                     blobs |-> inv.blobs, batch |-> inv.batch,
                     opdata_before |-> opdata, operators_before |-> operators,
                     nodes_before |-> nodes, values_before |-> values]
  /\ UNCHANGED <<init_flags, no_qs8, no_qu8, values, nodes, phase, history>>
  /\ UNCHANGED kernel_vars

Next == Define \/ Return \/ Create \/ Setup

Spec == Init /\ [][Next]_vars

\* The lowering of one node with a quantized output: the scales, zero
\* points and output bounds the clamp bounds of lines 77-82 and 103-108 are
\* derived from.  Values 0 .. 3 are the input, the filter, the bias and the
\* output.
ClampScales == {Rat(1, 2), Rat(1, 1), Rat(2, 1), Rat(3, 1), Rat(4, 1)}
ClampZeroPoints(datatype) ==
  IF datatype = "qint8" THEN {-128, 0, 3, 127} ELSE {0, 3, 128, 255}
ClampSubgraphs ==
  { <<Value("dense_tensor", dt, NULL, 0),
      Value("dense_tensor", dt, 11, 0),
      Value("dense_tensor", "qint32", 12, 0),
      QuantizedValue("dense_tensor", dt, NULL, zp, scale)>> :
    dt \in {"qint8", "quint8"}, zp \in {-128, 0, 3, 127, 128, 255}, scale \in ClampScales }
ClampFloatSet ==
  {NaN, Flt(-INFINITY), Flt(-300), Flt(-3), Flt(-1), Flt(1), Flt(3), Flt(300), Flt(INFINITY)}
ClampCalls ==
  [output_min : ClampFloatSet, output_max : ClampFloatSet,
   input_id : {0}, filter_id : {1}, bias_id : {2}, output_id : {3},
   flags : FlagSet]

InitClamp ==
  /\ init_flags = XNN_INIT_FLAG_XNNPACK
  /\ no_qs8 = FALSE
  /\ no_qu8 = FALSE
  /\ values \in {v \in ClampSubgraphs :
                   v[4].quantization.zero_point \in ClampZeroPoints(v[4].datatype)}
  /\ nodes = <<>>
  /\ opdata = <<>>
  /\ operators = <<>>
  /\ phase = "define"
  /\ call = NoCall
  /\ history = <<>>
  /\ RdsumIdle
  /\ GemmIdle

\* The client defines a single node.
DefineClamped ==
  /\ nodes = <<>>
  /\ DefineOneOf(ClampCalls)

NextClamp == DefineClamped \/ Return \/ Create

SpecClamp == InitClamp /\ [][NextClamp]_vars

----------------------------------------------------------------------------
\* Floating point, on the integer values the inputs below are made of.
\* A float with a p-bit significand holds every integer of magnitude up to
\* 2^p; between 2^p and 2^(p+1) only the multiples of 2, then of 4, and so
\* on.  f16 has p = 11, f32 has p = 24; every operation rounds its exact
\* result to the nearest such value, ties to the even significand.  (The
\* inputs keep every magnitude below the f16 maximum, 65504.)

Abs(x) == IF x < 0 THEN -x ELSE x

\* The spacing of the representable values around the magnitude n, for a
\* significand that holds the integers below limit.
RECURSIVE Ulp(_, _)
Ulp(n, limit) == IF n < limit THEN 1 ELSE 2 * Ulp(n \div 2, limit)

RoundToNearestEven(x, limit) ==
  LET n == Abs(x)
      u == Ulp(n, limit)
      q == n \div u
      r == n % u
      m == IF 2 * r < u THEN q * u
           ELSE IF 2 * r > u THEN (q + 1) * u
           ELSE IF q % 2 = 0 THEN q * u ELSE (q + 1) * u
  IN IF x < 0 THEN -m ELSE m

Round16(x) == RoundToNearestEven(x, 2048)
Round32(x) == RoundToNearestEven(x, 16777216)

\* One lane of the NEON operations of the reduction kernel.
vcvt_f32_f16(h) == Round32(h)
vaddq_f32(x, y) == Round32(x + y)
vmulq_f32(x, y) == Round32(x * y)
vcvt_f16_f32(x) == Round16(x)
vadd_f16(x, y) == Round16(x + y)

----------------------------------------------------------------------------
\* The reduction kernel xnn_f16_f32acc_rdsum_ukernel_7p7x__neonfp16arith_c32.

\* Bounds of the check: the elements of the output buffer that follow the
\* last channel.
OutputPad == 4

\* The input tensor and the initial output, each given by a pattern.
InputValue(pattern, r, c) ==
  IF pattern = "ramp" THEN (2 * r + c) % 5
  ELSE IF (r + c) % 2 = 0 THEN 1024 ELSE 1
OutputInit(pattern, c) ==
  IF pattern = "zero" THEN 0
  ELSE IF pattern = "ramp" THEN (c % 3) + 1
  ELSE 2048 + 2 * (c % 2)

\* Memory, in elements.  The input holds cfg.rows rows, input_stride elements
\* apart, of cfg.channels elements each; the zero buffer holds cfg.channels
\* zeros.  A read anywhere else finds whatever is there.
InputAt(cfg, e) ==
  LET r == e \div cfg.input_stride
      c == e % cfg.input_stride
  IN IF r < cfg.rows /\ c < cfg.channels
       THEN InputValue(cfg.in_pat, r, c) ELSE cfg.garbage
ZeroAt(cfg, e) == IF e < cfg.channels THEN 0 ELSE cfg.garbage

ZeroPtr == [base |-> "zero", off |-> 0]
InputPtr(off) == [base |-> "input", off |-> off]
At(cfg, p, e) ==
  IF p.base = "zero" THEN ZeroAt(cfg, p.off + e) ELSE InputAt(cfg, p.off + e)

\* vld1_u16(&p[j]): four elements.
vld1_u16(cfg, p, j) == [l \in 1..4 |-> At(cfg, p, j + l - 1)]

\* The arguments of one kernel call on rows row0 .. row0 + rows - 1 of the
\* tensor (input and input_stride in elements).
RdsumArgs(cfg, row0, rows) ==
  [rows |-> rows, channels |-> cfg.channels,
   input |-> row0 * cfg.input_stride, input_stride |-> cfg.input_stride,
   scale |-> cfg.scale]

input_increment_six(a) == 6 * a.input_stride
input_increment(a) == 7 * a.input_stride

Redirect_never(r, i) == i
\* The six tests at the head of the row loop: i1 .. i6 are i[2] .. i[7].
Redirect(r, i) ==
  [s \in 1..7 |->
     IF \/ s = 2 /\ r < 2
        \/ s = 3 /\ r <= 2
        \/ s = 4 /\ r < 4
        \/ s = 5 /\ r <= 4
        \/ s = 6 /\ r < 6
        \/ s = 7 /\ r <= 6
       THEN ZeroPtr ELSE i[s]]

\* The row loop, for (int r = rows; r > 0; r -= 7): one entry per group of
\* seven rows, holding the row pointers i0 .. i6 the group reads, each over
\* the first nvec vectors of four elements (all eight of a 32-channel chunk,
\* num_chunks of the remainder).
RECURSIVE RowLoop(_, _, _, _, _, _)
RowLoop(a, input, nvec, r, i, log) ==
  IF r <= 0 THEN log
  ELSE
    LET p == Redirect(r, i)
    IN RowLoop(a, input, nvec, r - 7,
               [s \in 1..7 |-> [p[s] EXCEPT !.off = @ + input_increment(a)]],
               Append(log, [input |-> input, nvec |-> nvec, slots |-> p]))

\* The accumulator lane of element e of the chunk after the row loop: it
\* starts at 0 and adds, group after group, element e of i0, i1, .. i6.
RECURSIVE LaneSum(_, _, _, _, _)
LaneSum(cfg, log, n, e, acc) ==
  IF n > 7 * Len(log) THEN acc
  ELSE LET g == ((n - 1) \div 7) + 1
           s == ((n - 1) % 7) + 1
       IN LaneSum(cfg, log, n + 1, e,
                  vaddq_f32(vcvt_f32_f16(At(cfg, log[g].slots[s], e)), acc))

\* vacc[0 .. 7] after the row loop; the vectors the loop does not touch
\* stay 0.
Accumulators(cfg, log, nvec) ==
  [v \in 1..8 |->
     [l \in 1..4 |->
        IF v <= nvec THEN LaneSum(cfg, log, 1, 4 * (v - 1) + l - 1, 0) ELSE 0]]

RowPointers(a, input) == [s \in 1..7 |-> InputPtr(input + (s - 1) * a.input_stride)]

\* One pass of the 32-channel loop: the row loop, the scaling, and what is
\* to be added to the 32 output elements at out_off.
FastChunk(cfg, a, input, out_off) ==
  LET log == RowLoop(a, input, 8, a.rows, RowPointers(a, input), <<>>)
      vacc == Accumulators(cfg, log, 8)
      scaled == [v \in 1..8 |-> [l \in 1..4 |-> vmulq_f32(vacc[v][l], a.scale)]]
  IN [stage |-> [lo |-> out_off,
                 add |-> [j \in 1..32 |->
                            vcvt_f16_f32(scaled[((j - 1) \div 4) + 1][((j - 1) % 4) + 1])]],
      log |-> log]

round_up_po2(n, q) == ((n + q - 1) \div q) * q

TailStages_four_lanes(vacc_low, channels, out_off) ==
  <<[lo |-> out_off, add |-> vacc_low]>>
\* The stores of the last 1..3 channels: two elements when channels & 2,
\* then one when channels & 1.
TailStages(vacc_low, channels, out_off) ==
  LET two == ((channels % 4) \div 2) = 1
      one == (channels % 2) = 1
      low2 == IF two THEN <<vacc_low[3], vacc_low[4], vacc_low[1], vacc_low[2]>>
                     ELSE vacc_low
      out2 == IF two THEN out_off + 2 ELSE out_off
  IN (IF two THEN <<[lo |-> out_off, add |-> <<vacc_low[1], vacc_low[2]>>]>> ELSE <<>>)
     \o (IF one THEN <<[lo |-> out2, add |-> <<low2[1]>>]>> ELSE <<>>)

\* if (channels != 0): the 1..31 channels left.
Remainder(cfg, a, channels, input, out_off) ==
  LET num_chunks == round_up_po2(channels, 4) \div 4
      num_full_chunks == channels \div 4
      log == RowLoop(a, input, num_chunks, a.rows, RowPointers(a, input), <<>>)
      vacc == Accumulators(cfg, log, num_chunks)
      scaled == [v \in 1..8 |->
                   IF v - 1 < (channels + 4) \div 4
                     THEN [l \in 1..4 |-> vmulq_f32(vacc[v][l], a.scale)]
                     ELSE vacc[v]]
      full == IF num_full_chunks = 0 THEN <<>>
              ELSE <<[lo |-> out_off,
                      add |-> [j \in 1..(4 * num_full_chunks) |->
                                 vcvt_f16_f32(scaled[((j - 1) \div 4) + 1][((j - 1) % 4) + 1])]]>>
      pos == channels \div 4
      vacc_low == [l \in 1..4 |-> vcvt_f16_f32(scaled[pos + 1][l])]
  IN [stages |-> full \o TailStages(vacc_low, channels, out_off + 4 * num_full_chunks),
      log |-> log]

RECURSIVE FastPath(_, _, _, _, _, _)
FastPath(cfg, a, channels, input, out_off, done) ==
  IF channels >= 32
    THEN LET ch == FastChunk(cfg, a, input, out_off)
         IN FastPath(cfg, a, channels - 32, input + 32, out_off + 32,
                     [stages |-> Append(done.stages, ch.stage),
                      log |-> done.log \o ch.log])
    ELSE [channels |-> channels, input |-> input, out_off |-> out_off,
          stages |-> done.stages, log |-> done.log]

\* The kernel: what it reads (log) and the read-modify-write passes over the
\* output it makes, in order (stages); each pass loads the elements
\* lo .. lo + Len(add) - 1 of the output and then stores them with add added.
xnn_f16_f32acc_rdsum_ukernel_7p7x__neonfp16arith_c32(cfg, a) ==
  LET f == FastPath(cfg, a, a.channels, a.input, 0, [stages |-> <<>>, log |-> <<>>])
      m == Remainder(cfg, a, f.channels, f.input, f.out_off)
  IN IF f.channels # 0
       THEN [stages |-> f.stages \o m.stages, log |-> f.log \o m.log]
       ELSE [stages |-> f.stages, log |-> f.log]

StoreStage_overwrite(out, st, vo) ==
  [j \in 1..Len(out) |->
     IF st.lo < j /\ j <= st.lo + Len(st.add) THEN st.add[j - st.lo] ELSE out[j]]
\* The store of one pass: vo is what the pass loaded.
StoreStage(out, st, vo) ==
  [j \in 1..Len(out) |->
     IF st.lo < j /\ j <= st.lo + Len(st.add)
       THEN vadd_f16(vo[j - st.lo], st.add[j - st.lo]) ELSE out[j]]
LoadStage_zero(out, st) == [j \in 1..Len(st.add) |-> 0]
\* The loads of one pass.
LoadStage(out, st) == SubSeq(out, st.lo + 1, st.lo + Len(st.add))

\* A whole call with nothing else writing the output.
RECURSIVE RunStages(_, _)
RunStages(out, stages) ==
  IF stages = <<>> THEN out
  ELSE RunStages(StoreStage(out, Head(stages), LoadStage(out, Head(stages))),
                 Tail(stages))

\* The tensors and calls of the check.  mode "single": one call over all the
\* rows.  mode "split": two calls, over rows [0, split) and [split, rows),
\* made by two threads on the same output; with serialized, the caller lets
\* one call at a time write the output.
RdsumRows == {1, 2, 3, 7, 8, 15}
RdsumChannels == {1, 2, 3, 4, 6, 33, 39, 66}
RdsumSingle ==
  [mode : {"single"}, rows : RdsumRows, channels : RdsumChannels,
   in_pat : {"ramp", "wide"}, out_pat : {"zero", "ramp", "big"},
   scale : {1, 2}, garbage : {0, 999}, split : {0}, serialized : {TRUE}]
RdsumSplit ==
  {c \in [mode : {"split"}, rows : {2, 8, 15}, channels : {3, 33},
          in_pat : {"ramp", "wide"}, out_pat : {"zero", "ramp", "big"},
          scale : {1, 2}, garbage : {999}, split : 1..14,
          serialized : BOOLEAN] : c.split < c.rows}
WithStride(c) ==
  [mode |-> c.mode, rows |-> c.rows, channels |-> c.channels,
   input_stride |-> c.channels, in_pat |-> c.in_pat, out_pat |-> c.out_pat,
   scale |-> c.scale, garbage |-> c.garbage, split |-> c.split,
   serialized |-> c.serialized]
RdsumConfigs == {WithStride(c) : c \in RdsumSingle \cup RdsumSplit}

RdsumCalls(cfg) ==
  IF cfg.mode = "single" THEN <<RdsumArgs(cfg, 0, cfg.rows)>>
  ELSE <<RdsumArgs(cfg, 0, cfg.split),
         RdsumArgs(cfg, cfg.split, cfg.rows - cfg.split)>>

OutputBuffer(cfg) ==
  [j \in 1..(cfg.channels + OutputPad) |-> OutputInit(cfg.out_pat, j - 1)]

\* No fully-connected call is under way.
FcIdle ==
  /\ init_flags = 0
  /\ no_qs8 = FALSE
  /\ no_qu8 = FALSE
  /\ values = <<>>
  /\ nodes = <<>>
  /\ opdata = <<>>
  /\ operators = <<>>
  /\ phase = "define"
  /\ call = NoCall
  /\ history = <<>>

InitRdsum ==
  /\ rd_cfg \in RdsumConfigs
  /\ output = OutputBuffer(rd_cfg)
  /\ thr = [t \in 1..Len(RdsumCalls(rd_cfg)) |->
              [pc |-> "idle", a |-> RdsumCalls(rd_cfg)[t], stages |-> <<>>,
               log |-> <<>>, stage |-> 0, vo |-> <<>>, touched |-> {},
               stale |-> FALSE]]
  /\ lock = 0
  /\ FcIdle
  /\ GemmIdle

\* A serializing caller lets a call start when no other call is under way.
MayStart(t) == rd_cfg.serialized => lock = 0

\* Thread t enters the kernel.  The input does not change during the call,
\* so what the call reads from it and what each of its passes is to add to
\* the output are those of the entry.
RdsumCall ==
  \E t \in DOMAIN thr :
    /\ thr[t].pc = "idle"
    /\ MayStart(t)
    /\ thr[t].a.rows # 0 /\ thr[t].a.channels # 0
    /\ \E k \in {xnn_f16_f32acc_rdsum_ukernel_7p7x__neonfp16arith_c32(rd_cfg, thr[t].a)} :
         thr' = [thr EXCEPT ![t].pc = "load", ![t].stage = 1,
                            ![t].stages = k.stages, ![t].log = k.log]
    /\ lock' = IF rd_cfg.serialized THEN t ELSE lock
    /\ UNCHANGED <<rd_cfg, output, fc_vars, gemm_vars>>

\* The loads of the output elements of thread t's current pass (the row
\* loop before them reads only the input).
RdsumLoad ==
  \E t \in DOMAIN thr :
    /\ thr[t].pc = "load"
    /\ LET st == thr[t].stages[thr[t].stage] IN
         thr' = [thr EXCEPT ![t].pc = "store",
                            ![t].vo = LoadStage(output, st),
                            ![t].touched = @ \cup (st.lo .. (st.lo + Len(st.add) - 1))]
    /\ UNCHANGED <<rd_cfg, output, lock, fc_vars, gemm_vars>>

\* The stores of the pass; after the last pass the call returns.  stale
\* records that an element was stored by another call between this pass's
\* load and its store.
RdsumStore ==
  \E t \in DOMAIN thr :
    /\ thr[t].pc = "store"
    /\ LET st == thr[t].stages[thr[t].stage]
           last == thr[t].stage = Len(thr[t].stages)
       IN /\ output' = StoreStage(output, st, thr[t].vo)
          /\ thr' = [thr EXCEPT ![t].pc = IF last THEN "done" ELSE "load",
                                ![t].stage = IF last THEN @ ELSE @ + 1,
                                ![t].vo = <<>>,
                                ![t].touched = @ \cup (st.lo .. (st.lo + Len(st.add) - 1)),
                                ![t].stale = @ \/ (thr[t].vo # LoadStage(output, st))]
          /\ lock' = IF last /\ rd_cfg.serialized THEN 0 ELSE lock
    /\ UNCHANGED <<rd_cfg, fc_vars, gemm_vars>>

NextRdsum == RdsumCall \/ RdsumLoad \/ RdsumStore

SpecRdsum == InitRdsum /\ [][NextRdsum]_vars

----------------------------------------------------------------------------
\* The GEMM kernel xnn_qd8_f32_qc8w_gemm_minmax_ukernel_4x8c8__wasmsdot_u2.

INT32_MAX == 2147483647
INT32_MIN == -INT32_MAX - 1

\* Whether x + y is an int32, and wasm_i32x4_add on one lane: x + y modulo 2^32.
Fits32(x, y) == IF y >= 0 THEN x <= INT32_MAX - y ELSE x >= INT32_MIN - y
wasm_i32x4_add(x, y) ==
  IF Fits32(x, y) THEN x + y
  ELSE IF y >= 0 THEN (x - INT32_MAX - 1) + (y - INT32_MAX - 1)
  ELSE (x + INT32_MAX + 1) + (y + INT32_MAX + 1)
\* wasm_i32x4_mul on one lane, for a product that is an int32 (ksum is at
\* most 2^16 * 128 in magnitude here and the zero point at most 128).
wasm_i32x4_mul(x, y) == x * y

\* One lane of the f32 operations of the kernel.
wasm_f32x4_convert_i32x4(x) == Round32(x)
wasm_f32x4_mul(x, y) == Round32(x * y)
wasm_f32x4_add(x, y) == Round32(x + y)
wasm_f32x4_pmax(x, y) == IF x < y THEN y ELSE x
wasm_f32x4_pmin_first(x, y) == x
wasm_f32x4_pmin(x, y) == IF y < x THEN y ELSE x

\* The activations and the weights, each given by a pattern: A[m][k] for
\* row m and depth k, B[k][n] for depth k and column n.
AValue(pattern, m, k) ==
  IF pattern = "min" THEN -128
  ELSE IF pattern = "max" THEN 127
  ELSE IF pattern = "rows" THEN IF m % 2 = 0 THEN -128 ELSE 127
  ELSE ((3 * m + k) % 7) - 3
BValue(pattern, k, n) ==
  IF pattern = "min" THEN -128
  ELSE IF pattern = "max" THEN 127
  ELSE IF pattern = "cols" THEN IF n % 2 = 0 THEN -128 ELSE 127
  ELSE ((k + 2 * n) % 5) - 2
WeightScale(pattern, n) == IF pattern = "ones" THEN 1 ELSE 1 + (n % 2)
Bias(n) == (n % 3) - 1

\* Memory of the activations: offsets in bytes from a.  Row m is the kc
\* bytes at m * a_stride; a read anywhere else (the kernel may read up to
\* round_up(kc, 8) bytes of a row: XNN_OOB_READS) finds whatever is there.
ActivationAt(cfg, e) ==
  LET m == e \div cfg.a_stride
      k == e % cfg.a_stride
  IN IF m < cfg.mr /\ k < cfg.kc THEN AValue(cfg.a_pat, m, k) ELSE cfg.garbage

\* The packed weights.  A tile of 8 columns is 8 int32 sums, then for every
\* 8 depths the 8 weight bytes of each of the 8 columns, then 8 float scales
\* and 8 float biases; columns at or past nc and depths at or past kc are
\* zero.  The sum of column n is minus the sum of its weights, so that
\* ksum * zero_point corrects the dot product to sum((A - zero_point) * B).
TileBytes(kc8) == 96 + 8 * kc8
PackedWeight(cfg, k, n) ==
  IF k < cfg.kc /\ n < cfg.nc THEN BValue(cfg.b_pat, k, n) ELSE 0
\* The sum of the weights of column n at the depths lo .. hi - 1.
RECURSIVE WeightSum(_, _, _, _)
WeightSum(cfg, lo, hi, n) ==
  IF hi <= lo THEN 0
  ELSE IF hi = lo + 1 THEN PackedWeight(cfg, lo, n)
  ELSE WeightSum(cfg, lo, (lo + hi) \div 2, n) + WeightSum(cfg, (lo + hi) \div 2, hi, n)
\* The weights of a column repeat with a period dividing 840 in every
\* pattern, which gives the sum of a deep column without adding 2^16 terms.
ColumnSum(cfg, n) ==
  IF cfg.kc <= 840 THEN WeightSum(cfg, 0, cfg.kc, n)
  ELSE (cfg.kc \div 840) * WeightSum(cfg, 0, 840, n)
       + WeightSum(cfg, 0, cfg.kc % 840, n)
PackedKsum(cfg, n) == -ColumnSum(cfg, n)

\* What the blob holds at byte offset off: the region, and the int32, byte
\* or float that starts there.  BlobIn: at byte r of tile t, b = r - 32.
BlobIn(cfg, kc8, t, r, b) ==
  IF r < 32
    THEN [kind |-> "ksum",
          v |-> IF r % 4 = 0 THEN PackedKsum(cfg, 8 * t + (r \div 4)) ELSE cfg.garbage]
  ELSE IF b < 8 * kc8
    THEN [kind |-> "weights",
          v |-> PackedWeight(cfg, 8 * (b \div 64) + (b % 8), 8 * t + ((b % 64) \div 8))]
  ELSE IF b < 8 * kc8 + 32
    THEN [kind |-> "scale",
          v |-> IF b % 4 = 0 /\ 8 * t + ((b - 8 * kc8) \div 4) < cfg.nc
                  THEN WeightScale(cfg.scales, 8 * t + ((b - 8 * kc8) \div 4)) ELSE 0]
  ELSE [kind |-> "bias",
        v |-> IF b % 4 = 0 /\ 8 * t + ((b - 8 * kc8 - 32) \div 4) < cfg.nc
                THEN Bias(8 * t + ((b - 8 * kc8 - 32) \div 4)) ELSE 0]
BlobTile(cfg, kc8, tile, off) ==
  BlobIn(cfg, kc8, off \div tile, off % tile, (off % tile) - 32)
Blob(cfg, off) ==
  BlobTile(cfg, round_up_po2(cfg.kc, 8), TileBytes(round_up_po2(cfg.kc, 8)), off)

\* A load of the kernel from the blob, used as the given kind of data: the
\* value there if the blob holds that kind of data there.
LoadAs(cfg, held, kind) == IF held.kind = kind THEN held.v ELSE cfg.garbage
LoadW(cfg, off, kind) == LoadAs(cfg, Blob(cfg, off), kind)

\* Bounds of the check: the floats of a row of C that follow its nc columns.
CPad == 1

Dot4(cfg, w_off, a_off) ==
  LoadW(cfg, w_off, "weights") * ActivationAt(cfg, a_off)
  + LoadW(cfg, w_off + 1, "weights") * ActivationAt(cfg, a_off + 1)
  + LoadW(cfg, w_off + 2, "weights") * ActivationAt(cfg, a_off + 2)
  + LoadW(cfg, w_off + 3, "weights") * ActivationAt(cfg, a_off + 3)

\* wasm_i32x4_relaxed_dot_i8x16_i7x16_add on the two lanes of row m (1..4)
\* and column n (1..8), for the h-th 8 depths of the step: the column's 8
\* weight bytes are at w + 64 h + 8 (n - 1), the row's 8 activation bytes at
\* a[m] + 8 h; the first lane takes depths 0..3, the second 4..7.  (The
\* kernel is the variant for engines whose relaxed dot product takes both
\* operands as signed bytes and adds in 32 bits.)
DotAdd(g, m, n, h, lanes) ==
  <<wasm_i32x4_add(lanes[1],
                   Dot4(g.cfg, g.w + 64 * h + 8 * (n - 1), g.a[m] + 8 * h)),
    wasm_i32x4_add(lanes[2],
                   Dot4(g.cfg, g.w + 64 * h + 8 * (n - 1) + 4, g.a[m] + 8 * h + 4))>>
DotWraps(g, m, n, h, lanes) ==
  \/ ~Fits32(lanes[1], Dot4(g.cfg, g.w + 64 * h + 8 * (n - 1), g.a[m] + 8 * h))
  \/ ~Fits32(lanes[2], Dot4(g.cfg, g.w + 64 * h + 8 * (n - 1) + 4, g.a[m] + 8 * h + 4))

\* The reads of the blob so far, as maximal runs of one kind of use.
AppendRead(log, kind, off, len) ==
  IF log # <<>> /\ log[Len(log)].kind = kind
                /\ log[Len(log)].off + log[Len(log)].len = off
    THEN [log EXCEPT ![Len(log)].len = @ + len]
    ELSE Append(log, [kind |-> kind, off |-> off, len |-> len])

\* The stores of one tile, in program order; a later store to an address
\* replaces an earlier one.
RECURSIVE ApplyStores(_, _)
ApplyStores(C, stores) ==
  IF stores = <<>> THEN C
  ELSE ApplyStores([j \in DOMAIN C |->
                      IF Head(stores).at < j /\ j <= Head(stores).at + Len(Head(stores).v)
                        THEN Head(stores).v[j - Head(stores).at] ELSE C[j]],
                   Tail(stores))
StoredAt(stores) ==
  UNION {(stores[i].at) .. (stores[i].at + Len(stores[i].v) - 1) : i \in DOMAIN stores}

\* nc >= 8: the eight stores of a full tile.
FullStores(c, out) ==
  <<[at |-> c[1], v |-> SubSeq(out[1], 1, 4)], [at |-> c[1] + 4, v |-> SubSeq(out[1], 5, 8)],
    [at |-> c[2], v |-> SubSeq(out[2], 1, 4)], [at |-> c[2] + 4, v |-> SubSeq(out[2], 5, 8)],
    [at |-> c[3], v |-> SubSeq(out[3], 1, 4)], [at |-> c[3] + 4, v |-> SubSeq(out[3], 5, 8)],
    [at |-> c[4], v |-> SubSeq(out[4], 1, 4)], [at |-> c[4] + 4, v |-> SubSeq(out[4], 5, 8)]>>

\* nc < 8: four columns if nc & 4, then two if nc & 2, then one if nc & 1,
\* each for the rows c0 .. c3 in turn.
PartialStores(c, out, nc) ==
  LET four == ((nc \div 4) % 2) = 1
      two == ((nc \div 2) % 2) = 1
      one == (nc % 2) = 1
      v4 == [m \in 1..4 |-> IF four THEN SubSeq(out[m], 5, 8) ELSE SubSeq(out[m], 1, 4)]
      c4 == [m \in 1..4 |-> IF four THEN c[m] + 4 ELSE c[m]]
      v2 == [m \in 1..4 |-> IF two THEN <<v4[m][3], v4[m][4], v4[m][3], v4[m][4]>> ELSE v4[m]]
      c2 == [m \in 1..4 |-> IF two THEN c4[m] + 2 ELSE c4[m]]
  IN [stores |->
        (IF four THEN [m \in 1..4 |-> [at |-> c[m], v |-> SubSeq(out[m], 1, 4)]] ELSE <<>>)
        \o (IF two THEN [m \in 1..4 |-> [at |-> c4[m], v |-> SubSeq(v4[m], 1, 2)]] ELSE <<>>)
        \o (IF one THEN [m \in 1..4 |-> [at |-> c2[m], v |-> SubSeq(v2[m], 1, 1)]] ELSE <<>>),
      c |-> c2]

\* The calls of the check.  qp_padded: the caller has filled the entries of
\* quantization_params at and past mr with the entry of row mr - 1.
RowParams == <<[zero_point |-> 1, inv_scale |-> 1], [zero_point |-> -2, inv_scale |-> 2],
               [zero_point |-> 0, inv_scale |-> 1], [zero_point |-> 3, inv_scale |-> 2]>>
DeepRowParams ==
  <<[zero_point |-> -128, inv_scale |-> 1], [zero_point |-> -128, inv_scale |-> 1],
    [zero_point |-> 127, inv_scale |-> 1], [zero_point |-> 127, inv_scale |-> 1]>>
QuantizationParams(params, mr, padded) ==
  [m \in 1..4 |-> IF padded /\ m > mr /\ mr >= 1 THEN params[mr] ELSE params[m]]
GemmCalls ==
  [mr : 1..4, nc : 0..9, kc : {3, 8, 16, 20}, a_pat : {"mix"}, b_pat : {"mix"},
   params : {RowParams}, qp_padded : BOOLEAN, scales : {"mix"},
   min : {-50}, max : {-50, -10, 50}, ndebug : BOOLEAN, garbage : {77}]
\* The calls at the extremes: kc = 2^16 (and kc = 8, which takes the
\* 8-depth step), activations, weights and zero points all at -128 or 127,
\* in every combination of signs over the rows and columns of the tile.
MaxDepth == 65536
GemmDeepCalls ==
  [mr : {4}, nc : {8}, kc : {8, MaxDepth}, a_pat : {"rows"}, b_pat : {"cols"},
   params : {DeepRowParams}, qp_padded : {FALSE}, scales : {"ones"},
   min : {-50}, max : {50}, ndebug : {FALSE}, garbage : {77}]
GemmConfig(x) ==
  [mr |-> x.mr, nc |-> x.nc, kc |-> x.kc, a_stride |-> x.kc,
   cm_stride |-> x.nc + CPad, cn_stride |-> 8,
   a_pat |-> x.a_pat, b_pat |-> x.b_pat, scales |-> x.scales,
   qp |-> QuantizationParams(x.params, x.mr, x.qp_padded), qp_padded |-> x.qp_padded,
   min |-> x.min, max |-> x.max, ndebug |-> x.ndebug, garbage |-> x.garbage]

\* The kernel's state: the position in the code (pc), the arguments (cfg),
\* the locals nc, kc, k, the row pointers a (bytes from a) and c (floats from
\* c), w (bytes from w), the two int32 lanes acc[m][n] of every row and
\* column of the tile, and C.  Kept alongside: the reads of the blob
\* (w_log), the number of activation loads (a_loads), the row pointers at
\* the start of the tile (a_tile), the floats of C stored to (written), the
\* reduced sums of the last tile (vacc), the number of tiles finished, the
\* 16-depth and 8-depth steps taken in the tile (steps16, steps8), and
\* whether an int32 addition has wrapped.
ZeroTile == [m \in 1..4 |-> [n \in 1..8 |-> <<0, 0>>]]
CLen(cfg) == 4 * cfg.cm_stride + 8
GemmStart(cfg) ==
  [pc |-> "call", cfg |-> cfg, nc |-> cfg.nc, kc |-> cfg.kc, k |-> 0,
   a |-> <<0, 0, 0, 0>>, c |-> <<0, 0, 0, 0>>, w |-> 0,
   acc |-> ZeroTile, vacc |-> [m \in 1..4 |-> [n \in 1..8 |-> 0]],
   C |-> [j \in 1..CLen(cfg) |-> cfg.garbage],
   w_log |-> <<>>, a_loads |-> 0, a_tile |-> <<0, 0, 0, 0>>, written |-> {},
   tiles |-> 0, steps16 |-> 0, steps8 |-> 0, wrapped |-> FALSE]

InitGemm ==
  /\ FcIdle
  /\ RdsumIdle
  /\ \E x \in GemmCalls : gemm = GemmStart(GemmConfig(x))
InitGemmDepth ==
  /\ FcIdle
  /\ RdsumIdle
  /\ \E x \in GemmDeepCalls : gemm = GemmStart(GemmConfig(x))

\* Lines 41-60: the pointers of the four row slots; a slot at or past mr
\* takes the pointer of the slot before it.
AliasedRows_none(mr, stride) == <<0, stride, 2 * stride, 3 * stride>>
AliasedRows(mr, stride) ==
  LET p1 == IF mr < 2 THEN 0 ELSE stride
      p2 == IF mr <= 2 THEN p1 ELSE p1 + stride
      p3 == IF mr # 4 THEN p2 ELSE p2 + stride
  IN <<0, p1, p2, p3>>

\* Lines 31-65.  The asserts end the call in a build that keeps them.
GemmAsserts(cfg) == cfg.mr # 0 /\ cfg.mr <= 4 /\ cfg.nc # 0 /\ cfg.kc # 0
GemmCall ==
  /\ gemm.pc = "call"
  /\ gemm' = IF ~gemm.cfg.ndebug /\ ~GemmAsserts(gemm.cfg)
               THEN [gemm EXCEPT !.pc = "aborted"]
               ELSE [gemm EXCEPT !.pc = "tile",
                                 !.kc = round_up_po2(gemm.cfg.kc, 8),
                                 !.a = AliasedRows(gemm.cfg.mr, gemm.cfg.a_stride),
                                 !.c = AliasedRows(gemm.cfg.mr, gemm.cfg.cm_stride)]
  /\ UNCHANGED <<fc_vars, rdsum_vars>>

\* Lines 73-75: the two lanes of an accumulator at the start of a tile.
\* wasm_u64x2_extend_low_u32x4 / _high_ widen each product to 64 bits, which
\* leaves it in the first 32-bit lane and 0 in the second.
InitialLanes_both(ksum, zero_point) ==
  <<wasm_i32x4_mul(ksum, zero_point), wasm_i32x4_mul(ksum, zero_point)>>
InitialLanes(ksum, zero_point) == <<wasm_i32x4_mul(ksum, zero_point), 0>>

\* Lines 67-99: the head of the do loop.  The zero points of
\* quantization_params[0..3] are loaded, then the 8 sums of the tile; the
\* first lane of every accumulator is ksum * zero_point, the second 0.
GemmTileInit ==
  /\ gemm.pc = "tile"
  /\ gemm' = [gemm EXCEPT
       !.pc = "k",
       !.acc = [m \in 1..4 |-> [n \in 1..8 |->
                  InitialLanes(LoadW(gemm.cfg, gemm.w + 4 * (n - 1), "ksum"),
                               gemm.cfg.qp[m].zero_point)]],
       !.w = gemm.w + 32,
       !.k = gemm.kc,
       !.a_tile = gemm.a,
       !.steps16 = 0,
       !.steps8 = 0,
       !.w_log = AppendRead(gemm.w_log, "ksum", gemm.w, 32)]
  /\ UNCHANGED <<fc_vars, rdsum_vars>>

\* The bytes of the blob that hold the given number of depths of the 8
\* columns of a tile: lines 114-121 load 8 vectors of 16 bytes for 16
\* depths, lines 169-172 load 4 for 8 depths.
WeightBytes_four_columns(depths) == 4 * depths
WeightBytes(depths) == 8 * depths

\* Lines 100-157: 16 depths.
GemmK16 ==
  /\ gemm.pc = "k"
  /\ gemm.k >= 16
  /\ gemm' = [gemm EXCEPT
       !.acc = [m \in 1..4 |-> [n \in 1..8 |->
                  DotAdd(gemm, m, n, 1, DotAdd(gemm, m, n, 0, gemm.acc[m][n]))]],
       !.wrapped = gemm.wrapped \/ \E m \in 1..4, n \in 1..8 :
                     \/ DotWraps(gemm, m, n, 0, gemm.acc[m][n])
                     \/ DotWraps(gemm, m, n, 1, DotAdd(gemm, m, n, 0, gemm.acc[m][n])),
       !.a = [m \in 1..4 |-> gemm.a[m] + 16],
       !.a_loads = gemm.a_loads + 8,
       !.w = gemm.w + WeightBytes(16),
       !.w_log = AppendRead(gemm.w_log, "weights", gemm.w, WeightBytes(16)),
       !.k = gemm.k - 16,
       !.steps16 = gemm.steps16 + 1]
  /\ UNCHANGED <<fc_vars, rdsum_vars>>

\* Lines 159-192: the last 8 depths.
GemmK8 ==
  /\ gemm.pc = "k"
  /\ gemm.k < 16
  /\ gemm.k # 0
  /\ gemm' = [gemm EXCEPT
       !.acc = [m \in 1..4 |-> [n \in 1..8 |-> DotAdd(gemm, m, n, 0, gemm.acc[m][n])]],
       !.wrapped = gemm.wrapped \/ \E m \in 1..4, n \in 1..8 :
                     DotWraps(gemm, m, n, 0, gemm.acc[m][n]),
       !.a = [m \in 1..4 |-> gemm.a[m] + 8],
       !.a_loads = gemm.a_loads + 4,
       !.w = gemm.w + WeightBytes(8),
       !.w_log = AppendRead(gemm.w_log, "weights", gemm.w, WeightBytes(8)),
       !.k = gemm.k - 8,
       !.steps8 = gemm.steps8 + 1]
  /\ UNCHANGED <<fc_vars, rdsum_vars>>

\* Lines 194-268 for one row slot and column: the two lanes are added, the
\* sum converted to float, multiplied by the inverse scale of
\* quantization_params[m - 1] and by the column's scale, the bias added,
\* and the result clamped.
Reduced(g, m, n) == wasm_i32x4_add(g.acc[m][n][1], g.acc[m][n][2])
Dequantized(g, m, n) ==
  wasm_f32x4_pmin(
    wasm_f32x4_pmax(
      wasm_f32x4_add(
        wasm_f32x4_mul(
          wasm_f32x4_mul(wasm_f32x4_convert_i32x4(Reduced(g, m, n)),
                         g.cfg.qp[m].inv_scale),
          LoadW(g.cfg, g.w + 4 * (n - 1), "scale")),
        LoadW(g.cfg, g.w + 32 + 4 * (n - 1), "bias")),
      g.cfg.min),
    g.cfg.max)
OutRow(g, m) ==
  <<Dequantized(g, m, 1), Dequantized(g, m, 2), Dequantized(g, m, 3), Dequantized(g, m, 4),
    Dequantized(g, m, 5), Dequantized(g, m, 6), Dequantized(g, m, 7), Dequantized(g, m, 8)>>

\* Lines 280-283: the row pointers after a full tile.
RewoundRows_none(a, kc) == a
RewoundRows(a, kc) == [m \in 1..4 |-> a[m] - kc]

\* Lines 194-328: the end of the K loop to the end of the do loop.
GemmFinish ==
  /\ gemm.pc = "k"
  /\ gemm.k = 0
  /\ \E out \in {<<OutRow(gemm, 1), OutRow(gemm, 2), OutRow(gemm, 3), OutRow(gemm, 4)>>} :
     \E p \in {IF gemm.nc >= 8
                 THEN [stores |-> FullStores(gemm.c, out),
                       c |-> [m \in 1..4 |-> gemm.c[m] + gemm.cfg.cn_stride]]
                 ELSE PartialStores(gemm.c, out, gemm.nc)} :
       gemm' = [gemm EXCEPT
         !.pc = IF gemm.nc >= 8 /\ gemm.nc - 8 # 0 THEN "tile" ELSE "done",
         !.vacc = [m \in 1..4 |-> [n \in 1..8 |-> Reduced(gemm, m, n)]],
         !.wrapped = gemm.wrapped \/ \E m \in 1..4, n \in 1..8 :
                       ~Fits32(gemm.acc[m][n][1], gemm.acc[m][n][2]),
         !.w = gemm.w + 64,
         !.w_log = AppendRead(AppendRead(gemm.w_log, "scale", gemm.w, 32),
                              "bias", gemm.w + 32, 32),
         !.C = ApplyStores(gemm.C, p.stores),
         !.written = gemm.written \cup StoredAt(p.stores),
         !.a = IF gemm.nc >= 8 THEN RewoundRows(gemm.a, gemm.kc) ELSE gemm.a,
         !.c = p.c,
         !.nc = IF gemm.nc >= 8 THEN gemm.nc - 8 ELSE 0,
         !.tiles = gemm.tiles + 1]
  /\ UNCHANGED <<fc_vars, rdsum_vars>>

NextGemm == GemmCall \/ GemmTileInit \/ GemmK16 \/ GemmK8 \/ GemmFinish
SpecGemm == InitGemm /\ [][NextGemm]_vars
SpecGemmDepth == InitGemmDepth /\ [][NextGemm]_vars

----------------------------------------------------------------------------
\* The claims.

DefineReturned == call.op = "define"
Failed(status) ==
  status \in {xnn_status_uninitialized, xnn_status_invalid_parameter,
              xnn_status_out_of_memory}

\* The node a successful call with arguments a is to leave.
NodeForCall(a) ==
  [type |-> "fully_connected",
   activation |-> [output_min |-> a.output_min, output_max |-> a.output_max],
   num_inputs |-> IF a.bias_id = XNN_INVALID_VALUE_ID THEN 2 ELSE 3,
   inputs |-> <<a.input_id, a.filter_id, a.bias_id>>,
   num_outputs |-> 1, outputs |-> <<a.output_id>>,
   flags |-> a.flags,
   create |-> "create_fully_connected_operator",
   setup |-> "setup_fully_connected_operator"]

\* C1: a call of xnn_define_fully_connected that returns a status other than
\* success (uninitialized, invalid-parameter or out-of-memory) leaves the
\* subgraph as it was: the same nodes, none modified, and the same Values,
\* whatever define calls came before.
C1_FailedDefineLeavesSubgraph ==
  (DefineReturned /\ call.status # xnn_status_success) =>
    /\ Failed(call.status)
    /\ nodes = call.nodes_before
    /\ values = call.values_before

\* A rejected call on a subgraph that already holds a node.
C1_Witness ==
  /\ DefineReturned
  /\ call.status = xnn_status_invalid_parameter
  /\ Len(nodes) >= 1

\* C2: a call that returns success appends exactly one node, of type
\* fully-connected, with num_inputs 2 without a bias id and 3 with one
\* (3 exactly when inputs[2] is a valid Value id), num_outputs 1, the inputs,
\* outputs, activation bounds and flags of the call, and both callbacks bound.
C2_SuccessAppendsOneNode ==
  (DefineReturned /\ call.status = xnn_status_success) =>
    /\ Len(nodes) = Len(call.nodes_before) + 1
    /\ SubSeq(nodes, 1, Len(call.nodes_before)) = call.nodes_before
    /\ nodes[Len(nodes)] = NodeForCall(call.args)
    /\ (nodes[Len(nodes)].num_inputs = 3) <=> (nodes[Len(nodes)].inputs[3] < num_values)
    /\ nodes[Len(nodes)].create # "NULL"
    /\ nodes[Len(nodes)].setup # "NULL"

\* An accepted call with a bias: a node of three inputs.
C2_Witness ==
  /\ DefineReturned
  /\ call.status = xnn_status_success
  /\ call.args.bias_id # XNN_INVALID_VALUE_ID
  /\ nodes[Len(nodes)].num_inputs = 3

\* C3: node creation is append-only: the node list is the sequence of the
\* nodes of the successful calls, in call order, whatever failing calls came
\* between them, so no later call has changed a field of an earlier node.
C3_AppendOnly ==
  /\ Len(nodes) = Len(history)
  /\ \A i \in 1..Len(nodes) : nodes[i] = NodeForCall(history[i])

\* A second node appended behind a different first one.
C3_Witness ==
  /\ DefineReturned
  /\ call.status = xnn_status_success
  /\ Len(nodes) = 2
  /\ nodes[1].num_inputs = 3
  /\ nodes[2].num_inputs = 2

\* The Values a call names, where its ids are valid.
InRange(id) == id < num_values
Dense(id) == InRange(id) /\ ValueAt(id).type = "dense_tensor"
HasBias(a) == a.bias_id # XNN_INVALID_VALUE_ID
BoundsInOrder(a) ==
  ~isnan(a.output_min) /\ ~isnan(a.output_max) /\ a.output_min.v < a.output_max.v

\* C4: every accepted node with a qint8 filter has filter zero_point 0 (a
\* define call whose qint8 filter has a non-zero zero_point is rejected and
\* appends no node).
C4_Qint8FilterZeroPointIsZero ==
  \A i \in 1..Len(nodes) :
    ValueAt(nodes[i].inputs[2]).datatype = "qint8" =>
      ValueAt(nodes[i].inputs[2]).quantization.zero_point = 0

\* C5: with the library initialized, a call with a NaN output_min, a NaN
\* output_max or output_min >= output_max returns invalid-parameter and
\* appends no node; an accepted call has non-NaN bounds with
\* output_min < output_max.
C5_BoundsChecked ==
  (DefineReturned /\ Initialized) =>
    /\ ~BoundsInOrder(call.args) =>
         /\ call.status = xnn_status_invalid_parameter
         /\ nodes = call.nodes_before
    /\ call.status = xnn_status_success => BoundsInOrder(call.args)

\* A NaN lower bound rejected, on ids that are otherwise accepted.
C5_Witness ==
  /\ DefineReturned
  /\ Initialized
  /\ isnan(call.args.output_min)
  /\ call.status = xnn_status_invalid_parameter
  /\ call.log = <<"nan_lower_bound">>
  /\ nodes = call.nodes_before

\* The datatype combinations of the compiled configuration.
AllowedWithBias ==
  {<<"fp32", "fp32", "fp32", "fp32">>}
    \cup (IF no_qs8 THEN {} ELSE {<<"qint8", "qint8", "qint32", "qint8">>})
    \cup (IF no_qu8 THEN {} ELSE {<<"quint8", "quint8", "qint32", "quint8">>})
AllowedWithoutBias ==
  {<<"fp32", "fp32", "fp32">>}
    \cup (IF no_qs8 THEN {} ELSE {<<"qint8", "qint8", "qint8">>})
    \cup (IF no_qu8 THEN {} ELSE {<<"quint8", "quint8", "quint8">>})
\* For a call whose ids are all valid.
CombinationAllowed(a) ==
  IF HasBias(a)
    THEN <<ValueAt(a.input_id).datatype, ValueAt(a.filter_id).datatype,
           ValueAt(a.bias_id).datatype, ValueAt(a.output_id).datatype>> \in AllowedWithBias
    ELSE <<ValueAt(a.input_id).datatype, ValueAt(a.filter_id).datatype,
           ValueAt(a.output_id).datatype>> \in AllowedWithoutBias

\* Every check but those of the datatypes and of static data.
ShapeChecksPass(a) ==
  /\ Initialized
  /\ BoundsInOrder(a)
  /\ Dense(a.input_id)
  /\ Dense(a.filter_id)
  /\ HasBias(a) => Dense(a.bias_id)
  /\ Dense(a.output_id)
StaticDataPresent(a) ==
  /\ ValueAt(a.filter_id).data # NULL
  /\ HasBias(a) => ValueAt(a.bias_id).data # NULL

\* C6: a call that passes every other check (and whose node can be
\* allocated) is accepted exactly when its datatype combination is in the
\* allowed set of the compiled configuration; every other combination,
\* compiled-out datatypes included, returns invalid-parameter, and no
\* XNN_UNREACHABLE is run into.
C6_DatatypeCombinations ==
  (DefineReturned /\ ShapeChecksPass(call.args) /\ StaticDataPresent(call.args)) =>
    /\ ~call.unreachable
    /\ CombinationAllowed(call.args) =>
         call.status \in {xnn_status_success, xnn_status_out_of_memory}
    /\ ~CombinationAllowed(call.args) =>
         /\ call.status = xnn_status_invalid_parameter
         /\ nodes = call.nodes_before

\* An fp32 input with a qint8 filter, rejected as a datatype mismatch.
C6_Witness ==
  /\ DefineReturned
  /\ ShapeChecksPass(call.args) /\ StaticDataPresent(call.args)
  /\ ValueAt(call.args.input_id).datatype = "fp32"
  /\ ValueAt(call.args.filter_id).datatype = "qint8"
  /\ call.status = xnn_status_invalid_parameter
  /\ call.log = <<"datatype_mismatch">>

\* C7: in every build configuration, every accepted node meets the
\* assertions of create_fully_connected_operator, and neither it nor the
\* check_datatypes_* functions run into XNN_UNREACHABLE.
C7_CreatePreconditionsHold ==
  /\ DefineReturned => ~call.unreachable
  /\ call.op = "create" => (call.asserts_ok /\ ~call.unreachable)
  /\ \A i \in 1..Len(nodes) :
       /\ CreateAsserts(nodes[i])
       /\ CreateOperatorType(ValueAt(nodes[i].outputs[1]).datatype) # "unreachable"

\* A node with a bias created in a build with QU8 compiled out.
C7_Witness ==
  /\ call.op = "create"
  /\ call.status = xnn_status_success
  /\ nodes[call.node].num_inputs = 3
  /\ no_qu8

\* C8 as stated: a call whose filter Value, or whose bias Value when a bias
\* id is supplied, has no static data returns invalid-parameter.
C8_NonStaticRejectedInvalidParameter ==
  DefineReturned =>
    /\ (InRange(call.args.filter_id) /\ ValueAt(call.args.filter_id).data = NULL) =>
         call.status = xnn_status_invalid_parameter
    /\ (HasBias(call.args) /\ InRange(call.args.bias_id)
          /\ ValueAt(call.args.bias_id).data = NULL) =>
         call.status = xnn_status_invalid_parameter

\* C8, amended: with the library initialized, a call whose filter Value, or
\* whose bias Value when a bias id is supplied, has no static data returns
\* invalid-parameter and appends no node; static data is asked of no other
\* Value: a call passing every other check with a static filter (and bias)
\* is accepted whether or not its input and output Values are static.
C8_NonStaticRejectedWhenInitialized ==
  (DefineReturned /\ Initialized) =>
    /\ (InRange(call.args.filter_id) /\ ValueAt(call.args.filter_id).data = NULL) =>
         (call.status = xnn_status_invalid_parameter /\ nodes = call.nodes_before)
    /\ (HasBias(call.args) /\ InRange(call.args.bias_id)
          /\ ValueAt(call.args.bias_id).data = NULL) =>
         (call.status = xnn_status_invalid_parameter /\ nodes = call.nodes_before)
    /\ (ShapeChecksPass(call.args) /\ CombinationAllowed(call.args)
          /\ StaticDataPresent(call.args)) =>
         call.status \in {xnn_status_success, xnn_status_out_of_memory}

\* A call rejected for its non-static filter, on a non-static input.
C8_Witness ==
  /\ DefineReturned
  /\ Initialized
  /\ call.log = <<"filter_non_static">>
  /\ call.status = xnn_status_invalid_parameter
  /\ ValueAt(call.args.input_id).data = NULL

\* C9: without the initialization flag, every call returns uninitialized,
\* whatever its other arguments, reads no Value and appends no node.
C9_UninitializedFailsFast ==
  (DefineReturned /\ ~Initialized) =>
    /\ call.status = xnn_status_uninitialized
    /\ call.reads = {}
    /\ nodes = call.nodes_before

\* An uninitialized call whose bound is NaN and whose ids are invalid.
C9_Witness ==
  /\ DefineReturned
  /\ ~Initialized
  /\ isnan(call.args.output_min)
  /\ ~InRange(call.args.input_id)
  /\ call.status = xnn_status_uninitialized

----------------------------------------------------------------------------
\* The claims on the reduction kernel (SpecRdsum).

\* The scalar reference: the sum of rows row0 .. last of channel c, exactly
\* and as f32 additions in row order.
RECURSIVE RowSum(_, _, _, _)
RowSum(cfg, row0, last, c) ==
  IF row0 > last THEN 0
  ELSE RowSum(cfg, row0, last - 1, c) + InputValue(cfg.in_pat, last, c)
RECURSIVE RowSum32(_, _, _, _)
RowSum32(cfg, row0, last, c) ==
  IF row0 > last THEN 0
  ELSE vaddq_f32(vcvt_f32_f16(InputValue(cfg.in_pat, last, c)),
                 RowSum32(cfg, row0, last - 1, c))
Exact16(x) == Round16(x) = x

RdsumDone(t) == t \in DOMAIN thr /\ thr[t].pc = "done"
RdsumAllDone == \A t \in DOMAIN thr : thr[t].pc = "done"
Channels == 0 .. (rd_cfg.channels - 1)

\* C11: after a call over rows >= 1 rows and channels >= 1 channels, every
\* output element c < channels holds its value of before the call plus
\* scale times the sum of column c over the rows: the scaled f32 sum is
\* narrowed to f16 and added in f16, and whenever these two steps are exact
\* the element is exactly output_before + scale * sum.
C11_AccumulatesScaledSum ==
  (rd_cfg.mode = "single" /\ RdsumDone(1)) =>
    \A c \in Channels :
      LET before == OutputInit(rd_cfg.out_pat, c)
          sum == RowSum(rd_cfg, 0, rd_cfg.rows - 1, c)
          sum32 == RowSum32(rd_cfg, 0, rd_cfg.rows - 1, c)
      IN /\ output[c + 1] =
              vadd_f16(before, vcvt_f16_f32(vmulq_f32(sum32, rd_cfg.scale)))
         /\ (Exact16(rd_cfg.scale * sum) /\ Exact16(before + rd_cfg.scale * sum))
              => output[c + 1] = before + rd_cfg.scale * sum

\* A call over 33 channels (one 32-channel chunk and one left over) has
\* added a non-zero sum to a non-zero last element.
C11_Witness ==
  /\ rd_cfg.mode = "single" /\ RdsumDone(1)
  /\ rd_cfg.channels = 33 /\ rd_cfg.rows = 8
  /\ OutputInit(rd_cfg.out_pat, 32) # 0
  /\ RowSum(rd_cfg, 0, 7, 32) # 0
  /\ output[33] = OutputInit(rd_cfg.out_pat, 32) + rd_cfg.scale * RowSum(rd_cfg, 0, 7, 32)

\* C12: two calls, on rows [0, k) and on rows [k, rows), one after the
\* other in either order into the same zeroed output, leave in every channel
\* what one call over all the rows leaves, wherever the arithmetic is exact.
C12_TilingEqualsFullCall ==
  (rd_cfg.mode = "split" /\ rd_cfg.serialized /\ rd_cfg.out_pat = "zero"
   /\ RdsumAllDone) =>
    LET full == RunStages(OutputBuffer(rd_cfg),
                  xnn_f16_f32acc_rdsum_ukernel_7p7x__neonfp16arith_c32(
                    rd_cfg, RdsumArgs(rd_cfg, 0, rd_cfg.rows)).stages)
    IN \A c \in Channels :
         (/\ Exact16(rd_cfg.scale * RowSum(rd_cfg, 0, rd_cfg.split - 1, c))
          /\ Exact16(rd_cfg.scale * RowSum(rd_cfg, rd_cfg.split, rd_cfg.rows - 1, c))
          /\ Exact16(rd_cfg.scale * RowSum(rd_cfg, 0, rd_cfg.rows - 1, c)))
           => /\ output[c + 1] = full[c + 1]
              /\ output[c + 1] = rd_cfg.scale * RowSum(rd_cfg, 0, rd_cfg.rows - 1, c)

\* Both partial calls, over rows [0, 3) and [3, 15), have run and each has
\* added something to the last of 33 channels.
C12_Witness ==
  /\ rd_cfg.mode = "split" /\ rd_cfg.serialized /\ rd_cfg.out_pat = "zero"
  /\ rd_cfg.rows = 15 /\ rd_cfg.split = 3 /\ rd_cfg.channels = 33
  /\ RdsumAllDone
  /\ RowSum(rd_cfg, 0, 2, 32) # 0
  /\ RowSum(rd_cfg, 3, 14, 32) # 0
  /\ output[33] = rd_cfg.scale * RowSum(rd_cfg, 0, 14, 32)
  /\ Exact16(rd_cfg.scale * RowSum(rd_cfg, 0, 14, 32))

\* The groups of the row loop of one chunk, and the row a pointer reads.
GroupsOf(log, input) == SelectSeq(log, LAMBDA en : en.input = input)
RowOf(a, en, p) == (p.off - en.input) \div a.input_stride
ChunkInputs(log) == {log[g].input : g \in DOMAIN log}

\* C13: in every chunk the row loop runs ceil(rows / 7) groups; a slot whose
\* row index 7 * group + slot is below rows reads that input row, every other
\* slot reads the zero buffer from its start, so each row below rows is read
\* once and no other row; and what the redirected slots read for a channel
\* is zero.
C13_RowLoopBoundary ==
  \A t \in DOMAIN thr :
    thr[t].pc # "idle" =>
      LET a == thr[t].a IN
      \A x \in ChunkInputs(thr[t].log) :
        LET groups == GroupsOf(thr[t].log, x)
            left == a.channels - (x - a.input)
        IN /\ Len(groups) = (a.rows + 6) \div 7
           /\ \A g \in DOMAIN groups : \A s \in 1..7 :
                LET p == groups[g].slots[s]
                    row == 7 * (g - 1) + (s - 1)
                IN IF row < a.rows
                     THEN p = InputPtr(x + row * a.input_stride)
                     ELSE /\ p = ZeroPtr
                          /\ \A e \in 0 .. (4 * groups[g].nvec - 1) :
                               e < left => At(rd_cfg, p, e) = 0
           /\ \A row \in 0 .. (a.rows - 1) :
                Cardinality({gs \in (DOMAIN groups) \X (1..7) :
                               /\ groups[gs[1]].slots[gs[2]].base = "input"
                               /\ RowOf(a, groups[gs[1]], groups[gs[1]].slots[gs[2]]) = row}) = 1
           /\ \A g \in DOMAIN groups : \A s \in 1..7 :
                groups[g].slots[s].base = "input"
                  => RowOf(a, groups[g], groups[g].slots[s]) < a.rows

\* A call over seven rows (one full group) and a call over eight (a full
\* group, then one row and six slots redirected to the zero buffer) have run.
C13_Witness ==
  /\ rd_cfg.mode = "split" /\ rd_cfg.rows = 15 /\ rd_cfg.split = 7
  /\ rd_cfg.channels = 33
  /\ RdsumAllDone
  /\ Len(thr[1].log) = 2 /\ Len(thr[2].log) = 4
  /\ thr[2].log[2].slots[2] = ZeroPtr
  /\ thr[2].log[2].slots[1].base = "input"

\* C14: no call loads or stores an output element at an index >= channels,
\* and those elements keep their values.
C14_OutputBeyondChannelsUntouched ==
  /\ \A t \in DOMAIN thr : thr[t].touched \subseteq Channels
  /\ rd_cfg.mode # "none" =>
       \A j \in (rd_cfg.channels + 1) .. Len(output) :
         output[j] = OutputInit(rd_cfg.out_pat, j - 1)

\* A call over 39 channels (32, then 4, then 2, then 1) has stored every
\* channel.
C14_Witness ==
  /\ rd_cfg.mode = "single" /\ RdsumDone(1)
  /\ rd_cfg.channels = 39
  /\ thr[1].touched = Channels
  /\ Len(thr[1].stages) = 4
  /\ rd_cfg.out_pat = "big"

\* What the call of thread t adds to channel c, exactly.
Contribution(t, c) ==
  rd_cfg.scale * RowSum(rd_cfg, thr[t].a.input \div rd_cfg.input_stride,
                        (thr[t].a.input \div rd_cfg.input_stride) + thr[t].a.rows - 1, c)
NoStaleStore == \A t \in DOMAIN thr : ~thr[t].stale

\* C19: two calls over different rows accumulate into the same output; each
\* pass of a call loads its output elements and stores them later.  When the
\* caller lets one call at a time write, no call stores over an element
\* another call has stored since it was loaded, and in whichever order the
\* calls ran the output is the initial output with both calls' scaled sums
\* added (the result of running them one after the other; exactly
\* initial + both sums where the f16 steps are exact).  The same holds of any
\* run in which no such store happens; among the runs of unserialized calls
\* there is one whose final output misses a call's sum.
C19_SerializedCallsLoseNoUpdate ==
  rd_cfg.mode = "split" =>
    /\ rd_cfg.serialized => NoStaleStore
    /\ (rd_cfg.serialized /\ RdsumAllDone) =>
         output \in {RunStages(RunStages(OutputBuffer(rd_cfg), thr[1].stages),
                               thr[2].stages),
                     RunStages(RunStages(OutputBuffer(rd_cfg), thr[2].stages),
                               thr[1].stages)}
    /\ (RdsumAllDone /\ NoStaleStore) =>
         \A c \in Channels :
           LET before == OutputInit(rd_cfg.out_pat, c) IN
             (/\ Exact16(Contribution(1, c)) /\ Exact16(Contribution(2, c))
              /\ Exact16(before + Contribution(1, c))
              /\ Exact16(before + Contribution(2, c))
              /\ Exact16(before + Contribution(1, c) + Contribution(2, c)))
               => output[c + 1] = before + Contribution(1, c) + Contribution(2, c)

\* Two unserialized calls have returned and the first output element holds
\* the initial value plus the sum of the second call only: the non-zero sum
\* of the first call is lost.
C19_Witness ==
  /\ rd_cfg.mode = "split" /\ ~rd_cfg.serialized
  /\ RdsumAllDone
  /\ \E t \in DOMAIN thr : thr[t].stale
  /\ Contribution(1, 0) # 0 /\ Contribution(2, 0) # 0
  /\ output[1] = OutputInit(rd_cfg.out_pat, 0) + Contribution(2, 0)

----------------------------------------------------------------------------
\* The claims on the GEMM kernel (SpecGemm, SpecGemmDepth).

GemmDone == gemm.pc = "done"
\* The float of C for row m (from 0) and column n (from 0).
CAt(g, m, n) == g.C[m * g.cfg.cm_stride + n + 1]
RECURSIVE DotProduct(_, _, _, _)
DotProduct(cfg, m, n, k) ==
  IF k = 0 THEN 0
  ELSE DotProduct(cfg, m, n, k - 1)
       + AValue(cfg.a_pat, m, k - 1) * BValue(cfg.b_pat, k - 1, n)
Clamp(x, lo, hi) == IF x < lo THEN lo ELSE IF x > hi THEN hi ELSE x
\* The reference result of row m and column n under the quantization
\* parameters qp, in exact arithmetic.
Reference(cfg, m, n, qp) ==
  Clamp((PackedKsum(cfg, n) * qp.zero_point + DotProduct(cfg, m, n, cfg.kc))
          * qp.inv_scale * WeightScale(cfg.scales, n) + Bias(n),
        cfg.min, cfg.max)
RowsMatchReference ==
  \A m \in 0..(gemm.cfg.mr - 1), n \in 0..(gemm.cfg.nc - 1) :
    CAt(gemm, m, n) = Reference(gemm.cfg, m, n, gemm.cfg.qp[m + 1])

\* A call whose quantization_params hold row mr - 1's entry again at mr .. 3
\* gives the reference result in every row and column.
PaddedCallsMatchReference ==
  (GemmDone /\ gemm.cfg.nc >= 1 /\ gemm.cfg.qp_padded) => RowsMatchReference

\* C15: after a call with mr in 1..4 and nc in 1..9, every C[m][n] with
\* m < mr and n < nc is clamp((ksum[n] * zero_point[m] + sum over k of
\* A[m][k] * B[k][n]) * input_scale[m] * weight_scale[n] + bias[n], min, max)
\* with row m's own zero_point and input_scale.
C15_GemmMatchesReference ==
  (GemmDone /\ gemm.cfg.mr \in 1..4 /\ gemm.cfg.nc \in 1..9) => RowsMatchReference

\* C16: after a call with mr < 4, the stores through the aliased row
\* pointers have changed nothing outside the mr rows, and every row m < mr
\* holds the value of activation row m under quantization_params[m],
\* whatever quantization_params[mr .. 3] hold.
StoresWithinRows ==
  \A j \in gemm.written :
    /\ j \div gemm.cfg.cm_stride < gemm.cfg.mr
    /\ j % gemm.cfg.cm_stride < gemm.cfg.nc
C16_AliasedRowsHarmless ==
  (GemmDone /\ gemm.cfg.mr < 4 /\ gemm.cfg.nc >= 1) =>
    /\ StoresWithinRows
    /\ RowsMatchReference

\* The exact sum of one row and column, for activations that are the same
\* at every depth of a row.
ExactSum(cfg, m, n) ==
  ColumnSum(cfg, n) * (AValue(cfg.a_pat, m, 0) - cfg.qp[m + 1].zero_point)
Below2To31(x) == x # INT32_MIN

\* C17: for kc up to 2^16 and activations, weights and zero points of the
\* largest int8 magnitudes, no int32 addition of the accumulation wraps:
\* every lane after every step, and the final sum of every row and column,
\* is the exact value and is below 2^31 in absolute value.
C17_AccumulationNeverWraps ==
  gemm.cfg.kc <= MaxDepth =>
    /\ ~gemm.wrapped
    /\ \A m \in 1..4, n \in 1..8 :
         Below2To31(gemm.acc[m][n][1]) /\ Below2To31(gemm.acc[m][n][2])
    /\ GemmDone =>
         \A m \in 1..4, n \in 1..8 :
           /\ Below2To31(gemm.vacc[m][n])
           /\ gemm.vacc[m][n] = ExactSum(gemm.cfg, m - 1, n - 1)

\* A call of depth 2^16 has returned and one of its sums has the largest
\* magnitude there is: 255 * 128 * 2^16.
C17_Witness ==
  /\ GemmDone
  /\ gemm.cfg.kc = MaxDepth
  /\ gemm.tiles = 1
  /\ \E m \in 1..4, n \in 1..8 : Abs(gemm.vacc[m][n]) = 255 * 128 * MaxDepth

\* C18: a call with nc = 0 processes no column tile: it never enters the
\* loop over the tiles, reads nothing from the packed weights or the
\* activations and stores nothing to C.
C18_ZeroColumnsDoesNothing ==
  gemm.cfg.nc = 0 =>
    /\ gemm.pc \notin {"tile", "k"}
    /\ gemm.tiles = 0
    /\ gemm.w_log = <<>>
    /\ gemm.a_loads = 0
    /\ gemm.written = {}

\* The i-th run of reads of a call of depth kc8 = round_up(kc, 8), if the
\* blob is read in its order: 32 bytes of sums, 8 * kc8 bytes of weights,
\* 32 bytes of scales and 32 bytes of biases for each tile in turn.
ExpectedRead(kc8, i) ==
  LET t == (i - 1) \div 4
      j == (i - 1) % 4
  IN IF j = 0 THEN [kind |-> "ksum", off |-> t * TileBytes(kc8), len |-> 32]
     ELSE IF j = 1 THEN [kind |-> "weights", off |-> t * TileBytes(kc8) + 32, len |-> 8 * kc8]
     ELSE IF j = 2
       THEN [kind |-> "scale", off |-> t * TileBytes(kc8) + 32 + 8 * kc8, len |-> 32]
     ELSE [kind |-> "bias", off |-> t * TileBytes(kc8) + 64 + 8 * kc8, len |-> 32]

\* C20: the kernel reads the blob front to back without a gap, for each
\* tile the 8 int32 sums, the 8 * round_up(kc, 8) weight bytes, the 8 float
\* scales and the 8 float biases, each from the bytes that hold that kind
\* of data; w is at the end of the bytes read so far, and at t times
\* 96 + 8 * round_up(kc, 8) when t tiles are done.
C20_BlobReadInOrder ==
  gemm.pc \in {"tile", "k", "done"} =>
    LET kc8 == round_up_po2(gemm.cfg.kc, 8)
        log == gemm.w_log
    IN /\ \A i \in DOMAIN log :
            /\ log[i].kind = ExpectedRead(kc8, i).kind
            /\ log[i].off = ExpectedRead(kc8, i).off
            /\ IF i < Len(log) THEN log[i].len = ExpectedRead(kc8, i).len
               ELSE log[i].len <= ExpectedRead(kc8, i).len
            /\ \A off \in log[i].off .. (log[i].off + log[i].len - 1) :
                 Blob(gemm.cfg, off).kind = log[i].kind
       /\ gemm.w = IF log = <<>> THEN 0 ELSE log[Len(log)].off + log[Len(log)].len
       /\ gemm.pc \in {"tile", "done"} =>
            /\ gemm.w = gemm.tiles * (96 + 8 * kc8)
            /\ Len(log) = 4 * gemm.tiles

\* A call over 9 columns and 20 depths has returned: two tiles, each read
\* with a 16-depth and an 8-depth step.
C20_Witness ==
  /\ GemmDone
  /\ gemm.cfg.nc = 9
  /\ gemm.cfg.kc = 20
  /\ gemm.tiles = 2
  /\ Len(gemm.w_log) = 8
  /\ gemm.w = 2 * (96 + 8 * 24)

----------------------------------------------------------------------------
\* The claims on what the kernels read and write.

\* C21: every vector a call loads lies below channels: a slot on the zero
\* buffer reads no element of it at an offset >= channels, and a slot on an
\* input row reads no channel >= channels of the row.
C21_ReadsBelowChannels ==
  \A t \in DOMAIN thr :
    thr[t].pc # "idle" =>
      \A g \in DOMAIN thr[t].log : \A s \in 1..7 :
        LET en == thr[t].log[g]
            p == en.slots[s]
            last == 4 * en.nvec - 1
        IN IF p.base = "zero"
             THEN p.off + last < thr[t].a.channels
             ELSE (en.input - thr[t].a.input) + last < thr[t].a.channels

----------------------------------------------------------------------------
\* The claim on the clamp bounds of a quantized operator (SpecClamp).

\* The integer nearest to n / d, the even one of the two if n / d lies in
\* their middle.
NearestInteger(n, d) ==
  CHOOSE k \in {n \div d, (n \div d) + 1} :
    /\ 2 * Abs(n - k * d) <= d
    /\ 2 * Abs(n - k * d) = d => k % 2 = 0
\* clamp(round(bound / scale + zero_point), lo, hi)
ClampedRound(bound, scale, zero_point, lo, hi) ==
  IF isinf(bound) THEN (IF bound.v < 0 THEN lo ELSE hi)
  ELSE Clamp(NearestInteger(bound.v * scale.d + zero_point * scale.n, scale.n), lo, hi)
TypeMin(type) == IF type = "fully_connected_nc_qs8" THEN -128 ELSE 0
TypeMax(type) == IF type = "fully_connected_nc_qs8" THEN 127 ELSE 255
IsQuantizedOperator(i) ==
  operators[i].type \in {"fully_connected_nc_qs8", "fully_connected_nc_qu8"}

\* C23: the clamp bounds of every qs8 or qu8 operator created from a
\* validated node are clamp(round(bound / scale + zero_point), lo, hi) of
\* the node's bounds, with the output's scale and zero point and [lo, hi]
\* the range of the output type; both lie in [lo, hi] and the lower one is
\* at most the upper one.
C23_QuantizedClampBounds ==
  \A i \in DOMAIN operators :
    IsQuantizedOperator(i) =>
      LET q == ValueAt(nodes[i].outputs[1]).quantization
          lo == TypeMin(operators[i].type)
          hi == TypeMax(operators[i].type)
      IN /\ operators[i].output_min
              = ClampedRound(nodes[i].activation.output_min, q.scale, q.zero_point, lo, hi)
         /\ operators[i].output_max
              = ClampedRound(nodes[i].activation.output_max, q.scale, q.zero_point, lo, hi)
         /\ lo <= operators[i].output_min
         /\ operators[i].output_min <= operators[i].output_max
         /\ operators[i].output_max <= hi

\* A qs8 operator has been created from a node with bounds (-1, +infinity)
\* on an output of scale 2 and zero point 3: the lower bound is 2.5 rounded
\* to the even 2, the upper bound is the largest int8.
C23_Witness ==
  /\ Len(operators) = 1
  /\ operators[1].type = "fully_connected_nc_qs8"
  /\ nodes[1].activation = [output_min |-> Flt(-1), output_max |-> Flt(INFINITY)]
  /\ ValueAt(nodes[1].outputs[1]).quantization = [zero_point |-> 3, scale |-> Rat(2, 1)]
  /\ operators[1].output_min = 2
  /\ operators[1].output_max = 127

\* The floats of C that belong to the rows below mr and the columns below n.
Cells(cfg, n) ==
  {m * cfg.cm_stride + j : m \in 0..(cfg.mr - 1), j \in 0..(n - 1)}
TilesOf(nc) == (nc + 7) \div 8

\* C22: a call with mr in 1..4 and nc >= 1 runs ceil(nc / 8) tiles, nc
\* falling by 8 with every full tile and to 0 with the partial one; after
\* t tiles exactly the floats of the rows below mr and the columns below
\* min(8 t, nc) have been stored to, and the arguments are as they were.
C22_WriteFootprint ==
  (gemm.pc \in {"tile", "k", "done"} /\ gemm.cfg.mr \in 1..4 /\ gemm.cfg.nc >= 1) =>
    /\ gemm.nc = IF 8 * gemm.tiles >= gemm.cfg.nc THEN 0 ELSE gemm.cfg.nc - 8 * gemm.tiles
    /\ gemm.written = Cells(gemm.cfg, IF 8 * gemm.tiles >= gemm.cfg.nc
                                        THEN gemm.cfg.nc ELSE 8 * gemm.tiles)
    /\ IF GemmDone THEN gemm.tiles = TilesOf(gemm.cfg.nc)
                   ELSE gemm.tiles < TilesOf(gemm.cfg.nc)
    /\ \A j \in 1..Len(gemm.C) : (j - 1) \notin gemm.written => gemm.C[j] = gemm.cfg.garbage

\* A call on 3 rows and 9 columns has returned after a full and a partial
\* tile, all 27 floats stored.
C22_Witness ==
  /\ GemmDone
  /\ gemm.cfg.mr = 3
  /\ gemm.cfg.nc = 9
  /\ gemm.tiles = 2
  /\ Cardinality(gemm.written) = 27

\* C24: in every tile the K loop takes floor(round_up(kc, 8) / 16) steps
\* of 16 depths and one step of 8 exactly when round_up(kc, 8) mod 16 = 8,
\* k ends at 0, every row pointer has then advanced by round_up(kc, 8)
\* bytes, and at the start of every tile every row pointer is at the start
\* of its row.
C24_DepthLoop ==
  LET kc8 == ((gemm.cfg.kc + 7) \div 8) * 8
      rows == AliasedRows(gemm.cfg.mr, gemm.cfg.a_stride)
  IN /\ gemm.pc = "tile" => gemm.a = rows
     /\ gemm.pc = "k" =>
          /\ gemm.a_tile = rows
          /\ gemm.k = kc8 - 16 * gemm.steps16 - 8 * gemm.steps8
          /\ gemm.k >= 0
          /\ \A m \in 1..4 : gemm.a[m] = rows[m] + 16 * gemm.steps16 + 8 * gemm.steps8
          /\ gemm.k = 0 =>
               /\ gemm.steps16 = kc8 \div 16
               /\ gemm.steps8 = IF kc8 % 16 = 8 THEN 1 ELSE 0
               /\ \A m \in 1..4 : gemm.a[m] = rows[m] + kc8
     /\ GemmDone =>
          /\ gemm.steps16 = kc8 \div 16
          /\ gemm.steps8 = IF kc8 % 16 = 8 THEN 1 ELSE 0

\* The K loop of the second tile of a call of depth 20 has ended: a step of
\* 16 and a step of 8, after the rewind that followed the first tile.
C24_Witness ==
  /\ gemm.pc = "k"
  /\ gemm.k = 0
  /\ gemm.tiles = 1
  /\ gemm.cfg.kc = 20
  /\ gemm.cfg.mr = 4
  /\ gemm.steps16 = 1
  /\ gemm.steps8 = 1
  /\ gemm.a = <<24, 44, 64, 84>>

\* The row slot whose store to row m (from 0) of C is the last one.
LastSlot(cfg, m) == IF m = cfg.mr - 1 THEN 4 ELSE m + 1
====
